---- MODULE Spec2Model ----
(***************************************************************************)
(* Model of the transaction explainer: the two route handlers (the         *)
(* object-model ledger in src/app/api/explain/[txHash]/route.ts and the    *)
(* gas-price ledger in unnamed/part_002) and the client formatters of      *)
(* src/app/page.tsx and unnamed/part_000.                                  *)
(*                                                                         *)
(* JavaScript strings are TLA+ strings (Len, SubSeq and \o act on them).   *)
(* The values undefined and null are the two strings UNDEFINED and NULL,   *)
(* which no input string of the model equals.  A BigInt is a record        *)
(* [neg, mag] whose magnitude is a decimal digit string of any length, so  *)
(* that the arithmetic is exact at every size.                             *)
(***************************************************************************)
EXTENDS Integers, Sequences, FiniteSets, TLC

UNDEFINED == "<undefined>"
NULL == "<null>"

\* !v for a value that is a string, undefined or null
Falsy(v) == v = UNDEFINED \/ v = NULL \/ v = ""

\* a ?? b
Nullish(v) == v = UNDEFINED \/ v = NULL

---------------------------------------------------------------------------
(* String primitives *)

CharAt(s, i) == SubSeq(s, i, i)

UpperChars == "ABCDEFGHIJKLMNOPQRSTUVWXYZ"
LowerChars == "abcdefghijklmnopqrstuvwxyz"

CharsOf(alphabet) == {CharAt(alphabet, i) : i \in 1..Len(alphabet)}

\* position (from 1) of each character of an alphabet
PositionIn(alphabet) ==
  [c \in CharsOf(alphabet) |-> CHOOSE i \in 1..Len(alphabet) : CharAt(alphabet, i) = c]

UpperPosition == PositionIn(UpperChars)
HexPosition == PositionIn("0123456789abcdef")
DecCharSet == CharsOf("0123456789")
HexCharSet == CharsOf("0123456789abcdefABCDEF")

LowerChar(c) ==
  IF c \in DOMAIN UpperPosition THEN CharAt(LowerChars, UpperPosition[c]) ELSE c

RECURSIVE ToLowerCase(_)
ToLowerCase(s) ==
  IF s = "" THEN "" ELSE LowerChar(Head(s)) \o ToLowerCase(Tail(s))

IsDecDigit(c) == c \in DecCharSet
IsHexDigit(c) == c \in HexCharSet
\* \w of a regular expression
IsWordChar(c) == IsDecDigit(c) \/ LowerChar(c) \in CharsOf(LowerChars) \/ c = "_"

AllChars(s, P(_)) == \A i \in 1..Len(s) : P(CharAt(s, i))

\* s.slice(start) and s.slice(start, end) for 0 <= start, end
Slice(s, start, end) ==
  LET e == IF end > Len(s) THEN Len(s) ELSE end
  IN IF start >= e THEN "" ELSE SubSeq(s, start + 1, e)
SliceFrom(s, start) == Slice(s, start, Len(s))
\* s.slice(-n)
SliceLast(s, n) == IF n >= Len(s) THEN s ELSE SubSeq(s, Len(s) - n + 1, Len(s))

\* s.includes(p)
Includes(s, p) ==
  \E i \in 0..Len(s) : i + Len(p) <= Len(s) /\ SubSeq(s, i + 1, i + Len(p)) = p

\* s.split(sep) for a non-empty separator; i is the index (from 0) of the
\* first occurrence of sep in s
RECURSIVE Split(_, _)
Split(s, sep) ==
  LET i == CHOOSE k \in 0..Len(s) :
             /\ k + Len(sep) <= Len(s) /\ SubSeq(s, k + 1, k + Len(sep)) = sep
             /\ \A j \in 0..(k - 1) : SubSeq(s, j + 1, j + Len(sep)) # sep
  IN IF ~Includes(s, sep) THEN <<s>>
     ELSE <<Slice(s, 0, i)>> \o Split(SliceFrom(s, i + Len(sep)), sep)

RECURSIVE Repeat(_, _)
Repeat(c, n) == IF n <= 0 THEN "" ELSE c \o Repeat(c, n - 1)

\* the string without the padding
PadStartNone(s, n, c) == s

\* s.padStart(n, c) for a one-character c
PadStart(s, n, c) == Repeat(c, n - Len(s)) \o s

\* F(e) with e evaluated before F is applied
Strict(F(_), e) == CHOOSE r \in {F(v) : v \in {e}} : TRUE

Max(S) == CHOOSE x \in S : \A y \in S : y <= x
Min(S) == CHOOSE x \in S : \A y \in S : x <= y

\* positions of s whose character does not satisfy P
Outside(s, P(_)) == {i \in 1..Len(s) : ~P(CharAt(s, i))}

\* s without its longest prefix / suffix of characters satisfying P
DropWhileStart(s, P(_)) ==
  IF Outside(s, P) = {} THEN "" ELSE SubSeq(s, Min(Outside(s, P)), Len(s))
DropWhileEnd(s, P(_)) ==
  IF Outside(s, P) = {} THEN "" ELSE SubSeq(s, 1, Max(Outside(s, P)))

IsZeroChar(c) == c = "0"

\* s.trim()
Trim(s) ==
  LET IsWhiteSpace(c) == c \in {" ", "\t", "\n", "\r"}
  IN DropWhileEnd(DropWhileStart(s, IsWhiteSpace), IsWhiteSpace)

---------------------------------------------------------------------------
(* BigInt: exact integers.  A magnitude is a decimal digit string without  *)
(* leading zeros, "0" for zero.                                            *)

DigitVal(c) == HexPosition[LowerChar(c)] - 1

StripLeadingZeros(m) ==
  IF DropWhileStart(m, IsZeroChar) = "" THEN "0" ELSE DropWhileStart(m, IsZeroChar)

Last(s) == CharAt(s, Len(s))

\* the last n characters of s (all of s when it is shorter) and the rest
Low(s, n) == SubSeq(s, Max({1, Len(s) - n + 1}), Len(s))
High(s, n) == SubSeq(s, 1, Len(s) - n)

\* Magnitudes are computed in limbs, runs of digits short enough for the
\* sums and products of two of them to stay below 2^31: 9 digits (base
\* 10^9) in sums and differences, 4 digits (base 10^4) in products.

\* value of a run of digits in a radix
RECURSIVE IntOfDigits(_, _)
IntOfDigits(s, radix) ==
  IF s = "" THEN 0 ELSE IntOfDigits(SubSeq(s, 1, Len(s) - 1), radix) * radix + DigitVal(Last(s))

\* n in exactly w digits
LimbOfInt(n, w) == Repeat("0", w - Len(ToString(n))) \o ToString(n)

\* a + b + carry, limb by limb from the right
RECURSIVE MagAddC(_, _, _)
MagAddC(a, b, carry) ==
  IF a = "" /\ b = ""
  THEN (IF carry = 0 THEN "" ELSE ToString(carry))
  ELSE LET s == IntOfDigits(Low(a, 9), 10) + IntOfDigits(Low(b, 9), 10) + carry
       IN MagAddC(High(a, 9), High(b, 9), s \div 1000000000)
            \o LimbOfInt(s % 1000000000, 9)

MagAdd(a, b) == StripLeadingZeros(MagAddC(a, b, 0))

\* a - b - borrow for a >= b
RECURSIVE MagSubB(_, _, _)
MagSubB(a, b, borrow) ==
  IF a = "" THEN ""
  ELSE LET d == IntOfDigits(Low(a, 9), 10) - IntOfDigits(Low(b, 9), 10) - borrow
       IN MagSubB(High(a, 9), High(b, 9), IF d < 0 THEN 1 ELSE 0)
            \o LimbOfInt(IF d < 0 THEN d + 1000000000 ELSE d, 9)

MagSub(a, b) == StripLeadingZeros(MagSubB(a, b, 0))

\* a < b for magnitudes of the same length
RECURSIVE MagLexLess(_, _)
MagLexLess(a, b) ==
  IF a = "" THEN FALSE
  ELSE IF Head(a) # Head(b) THEN DigitVal(Head(a)) < DigitVal(Head(b))
  ELSE MagLexLess(Tail(a), Tail(b))

\* a * k + carry for k < 10000
RECURSIVE MagMulSmallC(_, _, _)
MagMulSmallC(a, k, carry) ==
  IF a = ""
  THEN (IF carry = 0 THEN "" ELSE ToString(carry))
  ELSE LET p == IntOfDigits(Low(a, 4), 10) * k + carry
       IN MagMulSmallC(High(a, 4), k, p \div 10000)
            \o LimbOfInt(p % 10000, 4)

MagMulSmall(a, k) == StripLeadingZeros(MagMulSmallC(a, k, 0))

\* the leading limb of s when s is cut into limbs of n from the right
LeadLen(s, n) == ((Len(s) - 1) % n) + 1

\* schoolbook product, from the leading limb of b: acc * base + a * limb
RECURSIVE MagMulFrom(_, _, _)
MagMulFrom(a, b, acc) ==
  IF b = "" THEN acc
  ELSE LET n == LeadLen(b, 4)
           Rest(v) == MagMulFrom(a, SubSeq(b, n + 1, Len(b)), v)
       IN Strict(Rest, MagAdd(StripLeadingZeros(acc \o Repeat("0", 4)),
                              MagMulSmall(a, IntOfDigits(SubSeq(b, 1, n), 10))))

Big(neg, mag) == [neg |-> neg /\ mag # "0", mag |-> mag]
BigZero == Big(FALSE, "0")

BigAdd(x, y) ==
  LET less == IF Len(x.mag) # Len(y.mag) THEN Len(x.mag) < Len(y.mag)
              ELSE MagLexLess(x.mag, y.mag)
  IN IF x.neg = y.neg THEN Big(x.neg, MagAdd(x.mag, y.mag))
     ELSE IF less THEN Big(y.neg, MagSub(y.mag, x.mag))
     ELSE Big(x.neg, MagSub(x.mag, y.mag))

BigSub(x, y) == BigAdd(x, Big(~y.neg, y.mag))

BigMul(x, y) == Big(x.neg # y.neg, MagMulFrom(x.mag, y.mag, "0"))

\* x / base and x % base (truncating toward zero, the remainder has the
\* sign of x) for base = 10^k, which is what every division of the code
\* divides by
BigDiv(x, base) ==
  LET k == Len(base.mag) - 1
  IN IF Len(x.mag) <= k THEN BigZero
     ELSE Big(x.neg, SubSeq(x.mag, 1, Len(x.mag) - k))

BigMod(x, base) ==
  LET k == Len(base.mag) - 1
  IN IF k = 0 THEN BigZero
     ELSE Big(x.neg, StripLeadingZeros(SliceLast(x.mag, k)))

\* x.toString(10)
BigToString(x) == (IF x.neg THEN "-" ELSE "") \o x.mag

\* radix^n for the few digits of a limb
RECURSIVE Power(_, _)
Power(radix, n) == IF n = 0 THEN 1 ELSE radix * Power(radix, n - 1)

\* value of a digit string in radix 2, 8 or 16, from the leading limb of at
\* most 3 digits (16^3 < 10000): acc * radix^n + limb
RECURSIVE MagOfDigitsFrom(_, _, _)
MagOfDigitsFrom(s, radix, acc) ==
  IF s = "" THEN acc
  ELSE LET n == LeadLen(s, 3)
           Rest(v) == MagOfDigitsFrom(SubSeq(s, n + 1, Len(s)), radix, v)
       IN Strict(Rest, MagAdd(MagMulSmall(acc, Power(radix, n)),
                              ToString(IntOfDigits(SubSeq(s, 1, n), radix))))

\* a decimal digit string is its own magnitude
MagOfDigits(s, radix) ==
  IF radix = 10 THEN StripLeadingZeros(s)
  ELSE MagOfDigitsFrom(StripLeadingZeros(s), radix, "0")

IsDigitsOfRadix(s, radix) ==
  s # "" /\ \A i \in 1..Len(s) : IsHexDigit(CharAt(s, i)) /\ DigitVal(CharAt(s, i)) < radix

RadixOfPrefix(s) ==
  IF Len(s) < 2 THEN 10
  ELSE LET p == ToLowerCase(SubSeq(s, 1, 2))
       IN IF p = "0x" THEN 16 ELSE IF p = "0b" THEN 2 ELSE IF p = "0o" THEN 8 ELSE 10

\* the digits of a trimmed literal: what follows its prefix or its sign
DigitsOfLiteral(t) ==
  IF RadixOfPrefix(t) # 10 THEN SliceFrom(t, 2)
  ELSE IF t # "" /\ Head(t) \in {"+", "-"} THEN Tail(t)
  ELSE t

\* StringToBigInt: the string, trimmed, is empty (zero), a signed decimal
\* literal or an unsigned 0x / 0o / 0b literal; anything else is a SyntaxError
BigIntSyntaxOk(s) ==
  \/ Trim(s) = ""
  \/ IsDigitsOfRadix(DigitsOfLiteral(Trim(s)), RadixOfPrefix(Trim(s)))

BigIntValue(s) ==
  Big(Trim(s) # "" /\ Head(Trim(s)) = "-",
      MagOfDigits(DigitsOfLiteral(Trim(s)), RadixOfPrefix(Trim(s))))

\* BigInt(v): [ok |-> FALSE] stands for the thrown SyntaxError / TypeError
BigInt(v) ==
  IF Nullish(v) \/ ~BigIntSyntaxOk(v)
  THEN [ok |-> FALSE, val |-> BigZero]
  ELSE [ok |-> TRUE, val |-> BigIntValue(v)]

---------------------------------------------------------------------------
(* Object-model ledger: src/app/api/explain/[txHash]/route.ts *)

NoMeta == [known |-> FALSE, symbol |-> "", decimals |-> 0]
Meta(symbol, decimals) == [known |-> TRUE, symbol |-> symbol, decimals |-> decimals]

SUI_COIN == "0x2::sui::SUI"
USDC_COIN == "0x5d4b302506645c37ff133b98c4b50a5ae14841659738d6d733d59d0d217a93bf::coin::COIN"

\* KNOWN_COINS[coinType] ?? null
KNOWN_COINS(coinType) ==
  IF coinType = SUI_COIN THEN Meta("SUI", 9)
  ELSE IF coinType = USDC_COIN THEN Meta("USDC", 6)
  ELSE IF coinType = "0xc060006111016b8a020ad5b33834984a437aaa7d3c74c18e09a95d48aceab08c::coin::COIN"
  THEN Meta("USDT", 6)
  ELSE NoMeta

\* the input handed back when it cannot be parsed
hexToDecimalStringEcho(hex) ==
  LET Decimal(parsed) == IF parsed.ok THEN BigToString(parsed.val) ELSE hex
  IN IF Falsy(hex) THEN "0" ELSE Decimal(BigInt(hex))

hexToDecimalString(hex) ==
  LET Decimal(parsed) == IF parsed.ok THEN BigToString(parsed.val) ELSE "0"
  IN IF Falsy(hex) THEN "0" ELSE Decimal(BigInt(hex))

shortenAddressSui(addr) ==
  IF Falsy(addr) THEN "unknown"
  ELSE Slice(addr, 0, 6) \o "..." \o SliceLast(addr, 4)

resolveDisplayNameSui(addr) ==
  IF Falsy(addr) THEN "unknown" ELSE shortenAddressSui(addr)

\* The try block shared by the amount formatters: whole and fractional part
\* of raw / 10^decimals, the fraction left-padded to `decimals` digits with
\* its trailing zeros removed (replace(/0+$/, "")).  The caller has checked
\* that BigInt(rawAmount) does not throw.
DecimalAmount(rawAmount, decimals, FormatWhole(_)) ==
  LET Joined(whole, frac) ==
        IF frac = BigZero THEN whole
        ELSE whole \o "." \o
             DropWhileEnd(PadStart(BigToString(frac), decimals, "0"), IsZeroChar)
      Parts(raw, base) ==
        Joined(FormatWhole(BigToString(BigDiv(raw, base))), BigMod(raw, base))
  IN Parts(BigInt(rawAmount).val, BigInt("1" \o Repeat("0", decimals)).val)

formatCoinAmount(coinType, rawAmount) ==
  IF Falsy(rawAmount) THEN [amount |-> "0", symbol |-> "coins"]
  ELSE
    LET meta == IF ~Falsy(coinType) THEN KNOWN_COINS(coinType) ELSE NoMeta
        decimals == IF meta.known THEN meta.decimals ELSE 9
        symbol == IF meta.known THEN meta.symbol ELSE "coins"
    IN IF BigInt(rawAmount).ok
       THEN [amount |-> DecimalAmount(rawAmount, decimals, LAMBDA whole : whole), symbol |-> symbol]
       ELSE [amount |-> hexToDecimalString(rawAmount), symbol |-> symbol]

RECURSIVE parseCoinTransfersLoop(_)
parseCoinTransfersLoop(events) ==
  IF events = <<>> THEN <<>>
  ELSE LET event == Head(events)
           parsed == event.parsedJson
           \* event.type?.includes("Transfer"), parsed?.amount && parsed?.recipient
           isTransfer == /\ ~Nullish(event.type) /\ Includes(event.type, "Transfer")
                         /\ ~Falsy(parsed.amount) /\ ~Falsy(parsed.recipient)
       IN (IF isTransfer
           THEN << [coinType |-> IF Falsy(parsed.coin_type) THEN "0x2::sui::SUI"
                                 ELSE parsed.coin_type,
                    from |-> IF Falsy(parsed.sender) THEN "unknown" ELSE parsed.sender,
                    to |-> parsed.recipient,
                    amount |-> parsed.amount] >>
           ELSE <<>>) \o parseCoinTransfersLoop(Tail(events))

\* the events without a sender discarded
parseCoinTransfersDiscarding(events) ==
  IF events.kind = "absent" THEN [ok |-> TRUE, val |-> <<>>]
  ELSE IF events.kind = "array"
  THEN [ok |-> TRUE,
        val |-> SelectSeq(parseCoinTransfersLoop(events.items),
                          LAMBDA transfer : transfer.from # "unknown")]
  ELSE [ok |-> FALSE, val |-> <<>>]

\* events is [kind, items]: absent (null / undefined), an array, or a value
\* that is not iterable, on which the for-of loop throws
parseCoinTransfers(events) ==
  IF events.kind = "absent" THEN [ok |-> TRUE, val |-> <<>>]
  ELSE IF events.kind = "array" THEN [ok |-> TRUE, val |-> parseCoinTransfersLoop(events.items)]
  ELSE [ok |-> FALSE, val |-> <<>>]

SuiAction(type, description, from, to, coinType, amount, objectId) ==
  [type |-> type, description |-> description, from |-> from, to |-> to,
   coinType |-> coinType, amount |-> amount, objectId |-> objectId]

RECURSIVE CoinTransferActions(_)
CoinTransferActions(coinTransfers) ==
  IF coinTransfers = <<>> THEN <<>>
  ELSE LET transfer == Head(coinTransfers)
           Sent(f) == "sent " \o f.amount \o " " \o f.symbol
       IN << SuiAction("COIN_TRANSFER",
                       Sent(formatCoinAmount(transfer.coinType, transfer.amount)),
                       transfer.from, transfer.to, transfer.coinType,
                       transfer.amount, UNDEFINED) >>
          \o CoinTransferActions(Tail(coinTransfers))

RECURSIVE CreatedCount(_)
CreatedCount(objectChanges) ==
  IF objectChanges = <<>> THEN 0
  ELSE (IF Head(objectChanges).type = "created" THEN 1 ELSE 0)
       + CreatedCount(Tail(objectChanges))

RECURSIVE NftTransfers(_)
NftTransfers(objectChanges) ==
  IF objectChanges = <<>> THEN <<>>
  ELSE LET change == Head(objectChanges)
       IN (IF change.type = "transferred" /\ ~Falsy(change.objectType)
              /\ Includes(change.objectType, "nft")
           THEN << [from |-> IF Falsy(change.sender) THEN "unknown" ELSE change.sender,
                    to |-> IF Falsy(change.recipient) THEN "unknown" ELSE change.recipient,
                    objectId |-> IF Falsy(change.objectId) THEN "" ELSE change.objectId] >>
           ELSE <<>>) \o NftTransfers(Tail(objectChanges))

\* the plural for every count
CreationSummaryPlural(createdCount, sender) ==
  IF createdCount > 0
  THEN << SuiAction("OBJECT_CREATED",
                    ToString(createdCount) \o " new objects were created",
                    IF Falsy(sender) THEN "unknown" ELSE sender,
                    NULL, UNDEFINED, ToString(createdCount), UNDEFINED) >>
  ELSE <<>>

CreationSummary(createdCount, sender) ==
  IF createdCount > 0
  THEN << SuiAction("OBJECT_CREATED",
                    ToString(createdCount) \o " new object"
                      \o (IF createdCount > 1 THEN "s were" ELSE " was") \o " created",
                    IF Falsy(sender) THEN "unknown" ELSE sender,
                    NULL, UNDEFINED, ToString(createdCount), UNDEFINED) >>
  ELSE <<>>

RECURSIVE NftTransferActions(_)
NftTransferActions(nftTransfers) ==
  IF nftTransfers = <<>> THEN <<>>
  ELSE LET nft == Head(nftTransfers)
           objectIdShort == IF nft.objectId # "" THEN "#" \o Slice(nft.objectId, 0, 8) ELSE ""
       IN << SuiAction("NFT_TRANSFER", "NFT " \o objectIdShort \o " transferred",
                       nft.from, nft.to, UNDEFINED, UNDEFINED, nft.objectId) >>
          \o NftTransferActions(Tail(nftTransfers))

PackageShort(packageId) ==
  IF Len(packageId) > 20
  THEN Slice(packageId, 0, 10) \o "..." \o SliceLast(packageId, 6)
  ELSE packageId

RECURSIVE MoveCallActions(_, _)
MoveCallActions(commands, sender) ==
  IF commands = <<>> THEN <<>>
  ELSE LET cmd == Head(commands)
           packageId == IF Falsy(cmd.package) THEN "unknown" ELSE cmd.package
           module == IF Falsy(cmd.module) THEN "unknown" ELSE cmd.module
           functionName == IF Falsy(cmd.function) THEN "unknown" ELSE cmd.function
       IN (IF cmd.MoveCall
           THEN << SuiAction("MOVE_CALL", "called " \o module \o "::" \o functionName,
                             IF Falsy(sender) THEN "unknown" ELSE sender,
                             packageId,
                             PackageShort(packageId) \o "::" \o module \o "::" \o functionName,
                             UNDEFINED, UNDEFINED) >>
           ELSE <<>>) \o MoveCallActions(Tail(commands), sender)

\* kind is [tag, str, commands]: absent, a string, an object holding a
\* ProgrammableTransaction with its commands, or another object
CallActions(tx) ==
  IF ~tx.hasTransactionData THEN <<>>
  ELSE IF tx.kind.tag = "programmable" THEN MoveCallActions(tx.kind.commands, tx.sender)
  ELSE IF tx.kind.tag = "object"
          \/ (tx.kind.tag = "string" /\ tx.kind.str # "" /\ tx.kind.str # "TransferObject")
  THEN << SuiAction("CONTRACT_CALL",
                    "executed " \o (IF tx.kind.tag = "string" THEN tx.kind.str ELSE "transaction"),
                    tx.sender, NULL, UNDEFINED, UNDEFINED, UNDEFINED) >>
  ELSE <<>>

\* every transfer, fungible or not, before the creation summary
classifyActionsSuiTransfersFirst(tx, coinTransfers) ==
  CoinTransferActions(coinTransfers)
    \o NftTransferActions(NftTransfers(tx.objectChanges))
    \o CreationSummary(CreatedCount(tx.objectChanges),
                       IF tx.hasTransactionData THEN tx.sender ELSE UNDEFINED)
    \o CallActions(tx)

classifyActionsSui(tx, coinTransfers) ==
  CoinTransferActions(coinTransfers)
    \o CreationSummary(CreatedCount(tx.objectChanges),
                       IF tx.hasTransactionData THEN tx.sender ELSE UNDEFINED)
    \o NftTransferActions(NftTransfers(tx.objectChanges))
    \o CallActions(tx)

explainSui(action) ==
  LET fromName == resolveDisplayNameSui(action.from)
      toName == resolveDisplayNameSui(IF Nullish(action.to) THEN UNDEFINED ELSE action.to)
  IN
  IF action.type = "COIN_TRANSFER"
  THEN LET Transferred(f) ==
             fromName \o " transferred " \o f.amount \o " " \o f.symbol \o " to " \o toName
       IN Transferred(formatCoinAmount(action.coinType, action.amount))
  ELSE IF action.type = "NFT_TRANSFER"
  THEN LET objectId == IF ~Falsy(action.objectId)
                       THEN "#" \o Slice(action.objectId, 0, 8) ELSE ""
       IN "NFT " \o objectId \o " transferred from " \o fromName \o " to " \o toName
  ELSE IF action.type = "OBJECT_CREATED"
  THEN LET count == IF Falsy(action.amount) THEN "1" ELSE action.amount
       IN count \o " new object" \o (IF count # "1" THEN "s were" ELSE " was")
            \o " created by " \o fromName
  ELSE IF action.type = "MOVE_CALL"
  THEN LET callInfo == IF Falsy(action.coinType) THEN "unknown function" ELSE action.coinType
           parts == Split(callInfo, "::")
       IN IF Len(parts) >= 3
          THEN fromName \o " called " \o parts[2] \o "::" \o parts[3]
                 \o " in package " \o PackageShort(parts[1])
          ELSE fromName \o " executed Move call: " \o callInfo
  ELSE IF action.type = "CONTRACT_CALL" THEN fromName \o " executed a contract call"
  ELSE IF action.type = "STAKING" THEN fromName \o " staked SUI"
  ELSE IF action.type = "SWAP" THEN fromName \o " executed a swap"
  ELSE "Unrecognized action"

---------------------------------------------------------------------------
(* Gas-price ledger: unnamed/part_002 *)

ERC20_TRANSFER_TOPIC == "0xddf252ad1be2c89b69c2b068fc378daa952ba7f163c4a11628f55a4df523b3ef"
ERC721_TRANSFER_TOPIC == "0xddf252ad1be2c89b69c2b068fc378daa952ba7f163c4a11628f55a4df523b3ef"
ERC1155_TRANSFER_SINGLE_TOPIC == "0xc3d58168c5ae7397731d063d5bbf3d657854427343f4c083240f7aacaa2d0f62"
ERC1155_TRANSFER_BATCH_TOPIC == "0x4a39dc06d4c0dbc64b70af90fd698a233a518aa5d07e595d983b8c0526c8f7fb"

\* KNOWN_TOKENS[key] ?? null
KNOWN_TOKENS(key) ==
  IF key \in {"0xff970a61a04b1ca14834a43f5de4533ebddb5cc8",
              "0x75faf114eafb1bdbe2f0316df893fd58ce45aa4"} THEN Meta("USDC", 6)
  ELSE IF key = "0xfd086bc7cd5c481dcc9c85ebe478a1c0b69fcbb9" THEN Meta("USDT", 6)
  ELSE IF key = "0xda10009cbd5d07dd0cecc66161fc93d7c9000da1" THEN Meta("DAI", 18)
  ELSE IF key \in {"0x82e3a8f066a698966b041031b8413507eb728e5c",
                   "0x4d1493d3e0d448b6669e5a458182ea8c1a64f0e"} THEN Meta("WETH", 18)
  ELSE IF key = "0x912ce59144191c1204e64559fe8253a0e49e6548" THEN Meta("ARB", 18)
  ELSE IF key = "0x539bde0d7dbd336b79148aa742883198bbf60342" THEN Meta("MAGIC", 18)
  ELSE IF key = "0x0c880f6761f1af8d9aa9c466984b80dab9a8c9e8" THEN Meta("PENDLE", 18)
  ELSE IF key = "0x4e352cf164e64adcbad318c3a1e222e9eba4ce42" THEN Meta("MCB", 18)
  ELSE IF key = "0x3d9907f9a368ad0a51be2f8d4b8e4507dfb52c6a" THEN Meta("GMX", 18)
  ELSE IF key = "0xfc5a1a6eb076a2c7ad06ed22c90d7e710e35ad0a" THEN Meta("GRAIL", 18)
  ELSE NoMeta

\* KNOWN_CONTRACTS[key], UNDEFINED when the key is not listed
KNOWN_CONTRACTS(key) ==
  IF key = "0xc31e54c7a869b9fcbecc14363cf510d1c41fa443" THEN "Uniswap V3 Router"
  ELSE IF key = "0xe592427a0aece92de3edee1f18e0157c05861564" THEN "Uniswap V3 Router 2"
  ELSE IF key = "0x68b3465833fb72a70ecdf485e0e4c7bd8665fc45" THEN "Uniswap V3 Swap Router"
  ELSE IF key = "0x1b02da8cb0d097eb8d57a175b88c7d8b47997506" THEN "SushiSwap Router"
  ELSE IF key = "0xa5edbdd9646f8dff606d7448e414884c7d905dca" THEN "Aave V3 Pool"
  ELSE IF key = "0x794a61358d6845594f94dc1db02a252b5b4814ad" THEN "Aave V3 Pool (Arbitrum)"
  ELSE IF key = "0x72ce9c846789fdb6fc1f34ac4ad25dd9ef7031ef" THEN "Arbitrum Bridge"
  ELSE IF key = "0x8315177ab297ba92a06054ce80a67ed4dbd7ed3a" THEN "Arbitrum Bridge (L1)"
  ELSE IF key = "0x912ce59144191c1204e64559fe8253a0e49e6548" THEN "Arbitrum Token (ARB)"
  ELSE IF key = "0x0000000000000000000000000000000000000064" THEN "Arbitrum One L1 Gas Oracle"
  ELSE UNDEFINED

\* log.topics[i] (i from 0), UNDEFINED past the end
TopicAt(log, i) == IF i < Len(log.topics) THEN log.topics[i + 1] ELSE UNDEFINED

\* `0x${log.topics[i]?.slice(26) ?? ""}`
TopicAddress(log, i) ==
  "0x" \o (IF Nullish(TopicAt(log, i)) THEN "" ELSE SliceFrom(TopicAt(log, i), 26))

EvmTransfer(tokenContract, from, to, valueRaw, tokenId, transferType) ==
  [tokenContract |-> tokenContract, from |-> from, to |-> to, valueRaw |-> valueRaw,
   tokenId |-> tokenId, transferType |-> transferType]

\* log.topics[0] as it is, without the lower-casing
Topic0Verbatim(log) == TopicAt(log, 0)

\* log.topics[0]?.toLowerCase()
Topic0(log) ==
  IF Nullish(TopicAt(log, 0)) THEN UNDEFINED ELSE ToLowerCase(TopicAt(log, 0))

\* the payload of a single multi-token transfer read amount first, id second
ParseLogAmountFirst(log) ==
  LET topic0 == Topic0(log)
      data == log.data
  IN IF topic0 = ERC20_TRANSFER_TOPIC /\ Len(log.topics) = 3
     THEN << EvmTransfer(log.address, TopicAddress(log, 1), TopicAddress(log, 2),
                         IF Falsy(data) THEN "0x0" ELSE data, UNDEFINED, "ERC20") >>
     ELSE IF topic0 = ERC721_TRANSFER_TOPIC /\ Len(log.topics) = 4
     THEN << EvmTransfer(log.address, TopicAddress(log, 1), TopicAddress(log, 2),
                         "0x1", hexToDecimalString(TopicAt(log, 3)), "ERC721") >>
     ELSE IF topic0 = ERC1155_TRANSFER_SINGLE_TOPIC /\ Len(log.topics) = 4
     THEN LET d == IF Falsy(data) THEN "0x" ELSE data
          IN IF Len(d) >= 130
             THEN << EvmTransfer(log.address, TopicAddress(log, 2), TopicAddress(log, 3),
                                 "0x" \o Slice(d, 2, 66),
                                 hexToDecimalString("0x" \o Slice(d, 66, 130)), "ERC1155") >>
             ELSE <<>>
     ELSE IF topic0 = ERC1155_TRANSFER_BATCH_TOPIC /\ Len(log.topics) = 4
     THEN << EvmTransfer(log.address, TopicAddress(log, 2), TopicAddress(log, 3),
                         "0x1", "batch", "ERC1155") >>
     ELSE <<>>

\* the payload of a batch read as that of a single multi-token transfer
ParseLogBatchDecoded(log) ==
  LET topic0 == Topic0(log)
      data == log.data
  IN IF topic0 = ERC20_TRANSFER_TOPIC /\ Len(log.topics) = 3
     THEN << EvmTransfer(log.address, TopicAddress(log, 1), TopicAddress(log, 2),
                         IF Falsy(data) THEN "0x0" ELSE data, UNDEFINED, "ERC20") >>
     ELSE IF topic0 = ERC721_TRANSFER_TOPIC /\ Len(log.topics) = 4
     THEN << EvmTransfer(log.address, TopicAddress(log, 1), TopicAddress(log, 2),
                         "0x1", hexToDecimalString(TopicAt(log, 3)), "ERC721") >>
     ELSE IF topic0 = ERC1155_TRANSFER_SINGLE_TOPIC /\ Len(log.topics) = 4
     THEN LET d == IF Falsy(data) THEN "0x" ELSE data
          IN IF Len(d) >= 130
             THEN << EvmTransfer(log.address, TopicAddress(log, 2), TopicAddress(log, 3),
                                 "0x" \o Slice(d, 66, 130),
                                 hexToDecimalString("0x" \o Slice(d, 2, 66)), "ERC1155") >>
             ELSE <<>>
     ELSE IF topic0 = ERC1155_TRANSFER_BATCH_TOPIC /\ Len(log.topics) = 4
     THEN << EvmTransfer(log.address, TopicAddress(log, 2), TopicAddress(log, 3),
                         IF Len(data) >= 130 THEN "0x" \o Slice(data, 66, 130) ELSE "0x1",
                         "batch", "ERC1155") >>
     ELSE <<>>

\* the transfers one log contributes: one or none
ParseLog(log) ==
  LET topic0 == Topic0(log)
      data == log.data
  IN IF topic0 = ERC20_TRANSFER_TOPIC /\ Len(log.topics) = 3
     THEN << EvmTransfer(log.address, TopicAddress(log, 1), TopicAddress(log, 2),
                         IF Falsy(data) THEN "0x0" ELSE data, UNDEFINED, "ERC20") >>
     ELSE IF topic0 = ERC721_TRANSFER_TOPIC /\ Len(log.topics) = 4
     THEN << EvmTransfer(log.address, TopicAddress(log, 1), TopicAddress(log, 2),
                         "0x1", hexToDecimalString(TopicAt(log, 3)), "ERC721") >>
     ELSE IF topic0 = ERC1155_TRANSFER_SINGLE_TOPIC /\ Len(log.topics) = 4
     THEN LET d == IF Falsy(data) THEN "0x" ELSE data
          IN IF Len(d) >= 130
             THEN << EvmTransfer(log.address, TopicAddress(log, 2), TopicAddress(log, 3),
                                 "0x" \o Slice(d, 66, 130),
                                 hexToDecimalString("0x" \o Slice(d, 2, 66)), "ERC1155") >>
             ELSE <<>>
     ELSE IF topic0 = ERC1155_TRANSFER_BATCH_TOPIC /\ Len(log.topics) = 4
     THEN << EvmTransfer(log.address, TopicAddress(log, 2), TopicAddress(log, 3),
                         "0x1", "batch", "ERC1155") >>
     ELSE <<>>

\* the decoding given up at the first log that contributes no transfer
RECURSIVE parseTokenTransfersStopping(_)
parseTokenTransfersStopping(logs) ==
  IF logs = <<>> \/ ParseLog(Head(logs)) = <<>> THEN <<>>
  ELSE ParseLog(Head(logs)) \o parseTokenTransfersStopping(Tail(logs))

RECURSIVE parseTokenTransfers(_)
parseTokenTransfers(logs) ==
  IF logs = <<>> THEN <<>> ELSE ParseLog(Head(logs)) \o parseTokenTransfers(Tail(logs))

EvmAction(type, description, from, to, tokenContract, tokenId, amount) ==
  [type |-> type, description |-> description, from |-> from, to |-> to,
   tokenContract |-> tokenContract, tokenId |-> tokenId, amount |-> amount]

\* sender and recipient of a fungible transfer exchanged
TransferActionSwapped(transfer) ==
  IF transfer.transferType = "ERC20"
  THEN LET amount == hexToDecimalString(transfer.valueRaw)
       IN << EvmAction("ERC20_TRANSFER", "sent " \o amount \o " tokens",
                       transfer.to, transfer.from, transfer.tokenContract, UNDEFINED, amount) >>
  ELSE IF transfer.transferType = "ERC721"
  THEN << EvmAction("ERC721_TRANSFER", "transferred NFT #" \o transfer.tokenId,
                    transfer.from, transfer.to, transfer.tokenContract,
                    transfer.tokenId, "1") >>
  ELSE IF transfer.transferType = "ERC1155"
  THEN LET amount == IF transfer.tokenId = "batch" THEN "multiple"
                     ELSE hexToDecimalString(transfer.valueRaw)
       IN << EvmAction("ERC1155_TRANSFER",
                       IF transfer.tokenId = "batch" THEN "transferred multiple NFTs"
                       ELSE "transferred NFT #" \o transfer.tokenId \o " (x" \o amount \o ")",
                       transfer.from, transfer.to, transfer.tokenContract,
                       transfer.tokenId, amount) >>
  ELSE <<>>

TransferAction(transfer) ==
  IF transfer.transferType = "ERC20"
  THEN LET amount == hexToDecimalString(transfer.valueRaw)
       IN << EvmAction("ERC20_TRANSFER", "sent " \o amount \o " tokens",
                       transfer.from, transfer.to, transfer.tokenContract, UNDEFINED, amount) >>
  ELSE IF transfer.transferType = "ERC721"
  THEN << EvmAction("ERC721_TRANSFER", "transferred NFT #" \o transfer.tokenId,
                    transfer.from, transfer.to, transfer.tokenContract,
                    transfer.tokenId, "1") >>
  ELSE IF transfer.transferType = "ERC1155"
  THEN LET amount == IF transfer.tokenId = "batch" THEN "multiple"
                     ELSE hexToDecimalString(transfer.valueRaw)
       IN << EvmAction("ERC1155_TRANSFER",
                       IF transfer.tokenId = "batch" THEN "transferred multiple NFTs"
                       ELSE "transferred NFT #" \o transfer.tokenId \o " (x" \o amount \o ")",
                       transfer.from, transfer.to, transfer.tokenContract,
                       transfer.tokenId, amount) >>
  ELSE <<>>

RECURSIVE TransferActions(_)
TransferActions(tokenTransfers) ==
  IF tokenTransfers = <<>> THEN <<>>
  ELSE TransferAction(Head(tokenTransfers)) \o TransferActions(Tail(tokenTransfers))

\* the action of the call whenever the transaction has a target
classifyActionsEvmEveryTarget(tx, tokenTransfers) ==
  TransferActions(tokenTransfers)
    \o (IF tx.to # NULL
        THEN << EvmAction("CONTRACT_CALL", "contract interaction with " \o tx.to,
                          tx.from, tx.to, UNDEFINED, UNDEFINED, UNDEFINED) >>
        ELSE <<>>)

classifyActionsEvm(tx, tokenTransfers) ==
  TransferActions(tokenTransfers)
    \o (IF tx.to # NULL /\ ~Falsy(tx.input) /\ tx.input # "0x"
        THEN << EvmAction("CONTRACT_CALL", "contract interaction with " \o tx.to,
                          tx.from, tx.to, UNDEFINED, UNDEFINED, UNDEFINED) >>
        ELSE <<>>)

shortenAddressEvm(addr) ==
  IF Falsy(addr) THEN "unknown"
  ELSE LET a == ToLowerCase(addr)
       IN Slice(a, 0, 6) \o "..." \o SliceLast(a, 4)

resolveDisplayNameEvm(addr) ==
  IF Falsy(addr) THEN "unknown" ELSE shortenAddressEvm(addr)

\* the default symbol and decimals for every contract
formatTokenAmountUnlisted(tokenContract, rawAmount) ==
  IF Falsy(rawAmount) THEN [amount |-> "0", symbol |-> "tokens"]
  ELSE IF BigInt(rawAmount).ok
  THEN [amount |-> DecimalAmount(rawAmount, 18, LAMBDA whole : whole), symbol |-> "tokens"]
  ELSE [amount |-> hexToDecimalString(rawAmount), symbol |-> "tokens"]

formatTokenAmount(tokenContract, rawAmount) ==
  IF Falsy(rawAmount) THEN [amount |-> "0", symbol |-> "tokens"]
  ELSE
    LET meta == IF tokenContract # UNDEFINED
                THEN KNOWN_TOKENS(ToLowerCase(tokenContract)) ELSE NoMeta
        decimals == IF meta.known THEN meta.decimals ELSE 18
        symbol == IF meta.known THEN meta.symbol ELSE "tokens"
    IN IF BigInt(rawAmount).ok
       THEN [amount |-> DecimalAmount(rawAmount, decimals, LAMBDA whole : whole), symbol |-> symbol]
       ELSE [amount |-> hexToDecimalString(rawAmount), symbol |-> symbol]

\* the description of the action for a type that is not known
explainEvmDescribing(action) ==
  LET fromName == resolveDisplayNameEvm(action.from)
      toName == resolveDisplayNameEvm(IF Nullish(action.to) THEN UNDEFINED ELSE action.to)
  IN
  IF action.type = "ERC20_TRANSFER"
  THEN LET Sent(f) == fromName \o " sent " \o f.amount \o " " \o f.symbol \o " to " \o toName
       IN Sent(formatTokenAmount(action.tokenContract, action.amount))
  ELSE IF action.type = "ERC721_TRANSFER"
  THEN LET id == IF Nullish(action.tokenId) THEN "unknown" ELSE action.tokenId
       IN "NFT #" \o id \o " transferred from " \o fromName \o " to " \o toName
  ELSE IF action.type = "ERC1155_TRANSFER"
  THEN LET id == IF Nullish(action.tokenId) THEN "unknown" ELSE action.tokenId
           amount == IF Nullish(action.amount) THEN "1" ELSE action.amount
       IN "NFT #" \o id \o " (x" \o amount \o ") transferred from " \o fromName
            \o " to " \o toName
  ELSE IF action.type = "CONTRACT_CALL"
  THEN LET target == IF Nullish(action.to) THEN "" ELSE ToLowerCase(action.to)
           knownName == KNOWN_CONTRACTS(target)
           display == IF Nullish(knownName)
                      THEN shortenAddressEvm(IF Nullish(action.to) THEN UNDEFINED ELSE action.to)
                      ELSE knownName
       IN "User interacted with " \o display
  ELSE action.description

explainEvm(action) ==
  LET fromName == resolveDisplayNameEvm(action.from)
      toName == resolveDisplayNameEvm(IF Nullish(action.to) THEN UNDEFINED ELSE action.to)
  IN
  IF action.type = "ERC20_TRANSFER"
  THEN LET Sent(f) == fromName \o " sent " \o f.amount \o " " \o f.symbol \o " to " \o toName
       IN Sent(formatTokenAmount(action.tokenContract, action.amount))
  ELSE IF action.type = "ERC721_TRANSFER"
  THEN LET id == IF Nullish(action.tokenId) THEN "unknown" ELSE action.tokenId
       IN "NFT #" \o id \o " transferred from " \o fromName \o " to " \o toName
  ELSE IF action.type = "ERC1155_TRANSFER"
  THEN LET id == IF Nullish(action.tokenId) THEN "unknown" ELSE action.tokenId
           amount == IF Nullish(action.amount) THEN "1" ELSE action.amount
       IN "NFT #" \o id \o " (x" \o amount \o ") transferred from " \o fromName
            \o " to " \o toName
  ELSE IF action.type = "CONTRACT_CALL"
  THEN LET target == IF Nullish(action.to) THEN "" ELSE ToLowerCase(action.to)
           knownName == KNOWN_CONTRACTS(target)
           display == IF Nullish(knownName)
                      THEN shortenAddressEvm(IF Nullish(action.to) THEN UNDEFINED ELSE action.to)
                      ELSE knownName
       IN "User interacted with " \o display
  ELSE "Unrecognized action"

---------------------------------------------------------------------------
(* Client formatters: src/app/page.tsx and unnamed/part_000 *)

\* number of consecutive decimal digits of s from position i (from 1)
RECURSIVE DigitRun(_, _)
DigitRun(s, i) ==
  IF i <= Len(s) /\ IsDecDigit(CharAt(s, i)) THEN 1 + DigitRun(s, i + 1) ELSE 0

\* replace(/\B(?=(\d{3})+(?!\d))/g, ","): the expression matches just before
\* position i where that is not a word boundary and the digits that follow
\* up to the first non-digit come in groups of three
RECURSIVE FormatIntegerFrom(_, _)
FormatIntegerFrom(s, i) ==
  LET separator == /\ i > 1 /\ IsWordChar(CharAt(s, i - 1))
                   /\ DigitRun(s, i) > 0 /\ DigitRun(s, i) % 3 = 0
  IN IF i > Len(s) THEN ""
     ELSE (IF separator THEN "," ELSE "") \o CharAt(s, i)
          \o FormatIntegerFrom(s, i + 1)

formatInteger(num) == FormatIntegerFrom(num, 1)

formatNumber(str) ==
  IF Includes(str, ".")
  THEN LET parts == Split(str, ".")
       IN formatInteger(parts[1]) \o "." \o parts[2]
  ELSE formatInteger(str)

formatMistToSui(mist) ==
  IF Falsy(mist) THEN "0 SUI"
  ELSE IF BigInt(mist).ok THEN DecimalAmount(mist, 9, formatNumber) \o " SUI"
  ELSE formatNumber(mist) \o " mist"

formatWeiToEth(wei) ==
  IF Falsy(wei) THEN "0 ETH"
  ELSE IF BigInt(wei).ok THEN DecimalAmount(wei, 18, formatNumber) \o " ETH"
  ELSE formatNumber(wei) \o " wei"

clientFormatCoinAmount(coinType, rawAmount) ==
  IF Falsy(rawAmount) THEN [amount |-> "0", symbol |-> "coins"]
  ELSE
    LET parts == Split(coinType, "::")
        symbol ==
          IF Nullish(coinType) \/ coinType = "" THEN "SUI"
          ELSE IF Includes(coinType, "sui::SUI") THEN "SUI"
          ELSE IF Includes(coinType, "usdc") THEN "USDC"
          ELSE IF Includes(coinType, "usdt") THEN "USDT"
          ELSE IF Len(parts) >= 2
          THEN (IF parts[Len(parts)] = "" THEN "coins" ELSE parts[Len(parts)])
          ELSE "SUI"
    IN IF BigInt(rawAmount).ok
       THEN [amount |-> DecimalAmount(rawAmount, 9, formatNumber), symbol |-> symbol]
       ELSE [amount |-> formatNumber(rawAmount), symbol |-> symbol]

\* TransactionFlow: the loop over data.actions from the i-th action on,
\* with the flows pushed so far
RECURSIVE FlowsFrom(_, _, _)
FlowsFrom(actions, i, flows) ==
  IF i > Len(actions) THEN flows
  ELSE
    LET action == actions[i]
        exists == \E k \in 1..Len(flows) :
                    /\ flows[k].from = action.from
                    /\ flows[k].to = action.to
                    /\ flows[k].type = action.type
        Label(formatted) == formatted.amount \o " " \o formatted.symbol
        label == IF action.type = "COIN_TRANSFER"
                 THEN Label(clientFormatCoinAmount(action.coinType, action.amount))
                 ELSE IF Falsy(action.objectId) THEN "NFT"
                 ELSE "NFT #" \o Slice(action.objectId, 0, 8)
    IN IF /\ ~Falsy(action.from)
          /\ ~Falsy(action.to)
          /\ action.type \in {"COIN_TRANSFER", "NFT_TRANSFER"}
          /\ ~exists
       THEN FlowsFrom(actions, i + 1,
                      Append(flows, [from |-> action.from, to |-> action.to,
                                     type |-> action.type, label |-> label]))
       ELSE FlowsFrom(actions, i + 1, flows)

\* every transfer action gets a row of its own, a repeated triple included
TransactionFlowRepeating(data) ==
  LET transfers == SelectSeq(data.actions, LAMBDA action :
                     /\ ~Falsy(action.from)
                     /\ ~Falsy(action.to)
                     /\ action.type \in {"COIN_TRANSFER", "NFT_TRANSFER"})
  IN [i \in 1..Len(transfers) |-> FlowsFrom(<<transfers[i]>>, 1, <<>>)[1]]

\* the rows of the flow section; no rows, nothing rendered
TransactionFlow(data) == FlowsFrom(data.actions, 1, <<>>)

---------------------------------------------------------------------------
(* The GET handlers.  A response is [status, ...]: 200 with the explanation, *)
(* 400 for a rejected id, 404 for not found, 500 from the outer catch.       *)

\* [1-9A-HJ-NP-Za-km-z]
IsBase58Char(c) == IsWordChar(c) /\ c \notin {"0", "O", "I", "l", "_"}

IsHexRun(s, i, n) ==
  i + n - 1 <= Len(s) /\ \A j \in i..(i + n - 1) : IsHexDigit(CharAt(s, j))

\* trimmed.match(/(?:0x)?([0-9a-fA-F]{64})/i): the positions (from 1) where
\* the expression matches, and group 1 of the leftmost match
SuiHexMatches(s) ==
  {i \in 1..Len(s) :
     \/ (i + 1 <= Len(s) /\ ToLowerCase(SubSeq(s, i, i + 1)) = "0x" /\ IsHexRun(s, i + 2, 64))
     \/ IsHexRun(s, i, 64)}

\* the digest the object-model handler extracts, NULL when it rejects the id
SuiTxDigest(rawTxHash) ==
  LET trimmed == Trim(rawTxHash)
      i == Min(SuiHexMatches(trimmed))
      prefixed == /\ i + 1 <= Len(trimmed) /\ ToLowerCase(SubSeq(trimmed, i, i + 1)) = "0x"
                  /\ IsHexRun(trimmed, i + 2, 64)
  IN IF SuiHexMatches(trimmed) # {}
     THEN (IF prefixed THEN SubSeq(trimmed, i + 2, i + 65) ELSE SubSeq(trimmed, i, i + 63))
     ELSE IF Len(trimmed) >= 32 /\ Len(trimmed) <= 44 /\ AllChars(trimmed, IsBase58Char)
     THEN trimmed
     ELSE NULL

SuiStatus(tx) ==
  IF tx.status = "success" THEN "success"
  ELSE IF tx.status = "failure" THEN "reverted"
  ELSE "pending_or_unknown"

\* the total never below zero
SuiGasUsedClamped(tx) ==
  LET Total(totalGasCost) == IF totalGasCost.neg THEN "0" ELSE BigToString(totalGasCost)
      Gas(computationCost, storageCost, storageRebate) ==
        [computationCost |-> computationCost, storageCost |-> storageCost,
         storageRebate |-> storageRebate,
         total |-> Total(BigSub(BigAdd(BigInt(computationCost).val, BigInt(storageCost).val),
                                BigInt(storageRebate).val))]
  IN Gas(hexToDecimalString(tx.gasUsed.computationCost),
         hexToDecimalString(tx.gasUsed.storageCost),
         hexToDecimalString(tx.gasUsed.storageRebate))

SuiGasUsed(tx) ==
  LET Gas(computationCost, storageCost, storageRebate) ==
        [computationCost |-> computationCost, storageCost |-> storageCost,
         storageRebate |-> storageRebate,
         total |-> BigToString(BigSub(BigAdd(BigInt(computationCost).val,
                                             BigInt(storageCost).val),
                                      BigInt(storageRebate).val))]
  IN Gas(hexToDecimalString(tx.gasUsed.computationCost),
         hexToDecimalString(tx.gasUsed.storageCost),
         hexToDecimalString(tx.gasUsed.storageRebate))

\* the sentences in the opposite order of the actions
MapExplainSuiReversed(actions) ==
  [i \in 1..Len(actions) |-> explainSui(actions[Len(actions) + 1 - i])]

MapExplainSui(actions) == [i \in 1..Len(actions) |-> explainSui(actions[i])]

\* the part of the handler after the record was fetched
SuiExplanation(txBlock) ==
  LET Response(coinTransfers, actions) ==
        IF ~coinTransfers.ok
        THEN [status |-> 500, error |-> "Failed to explain transaction"]
        ELSE [status |-> 200,
              txDigest |-> txBlock.digest,
              txStatus |-> SuiStatus(txBlock),
              from |-> IF txBlock.hasTransactionData /\ ~Falsy(txBlock.sender)
                       THEN txBlock.sender ELSE "unknown",
              gasUsed |-> SuiGasUsed(txBlock),
              coins |-> coinTransfers.val,
              actions |-> actions,
              actionExplanations |-> MapExplainSui(actions)]
      Classified(coinTransfers) ==
        Response(coinTransfers, classifyActionsSui(txBlock, coinTransfers.val))
  IN Classified(parseCoinTransfers(txBlock.events))

\* fetch is what client.getTransactionBlock did: [outcome |-> "record",
\* txBlock], [outcome |-> "null"] or [outcome |-> "rejected", cause]
SuiGETResponse(rawTxHash, fetch) ==
  IF Falsy(SuiTxDigest(rawTxHash))
  THEN [status |-> 400, error |-> "Invalid transaction digest"]
  ELSE IF fetch.outcome # "record"
  THEN [status |-> 404, error |-> "Transaction not found on Sui Mainnet"]
  ELSE SuiExplanation(fetch.txBlock)

EvmHexMatches(s) ==
  {i \in 1..Len(s) :
     i + 1 <= Len(s) /\ SubSeq(s, i, i + 1) = "0x" /\ IsHexRun(s, i + 2, 64)}

\* the hash the gas-price handler extracts, NULL when it rejects the id
EvmTxHash(rawTxHash) ==
  IF EvmHexMatches(rawTxHash) # {}
  THEN SubSeq(rawTxHash, Min(EvmHexMatches(rawTxHash)), Min(EvmHexMatches(rawTxHash)) + 65)
  ELSE LET trimmed == Trim(rawTxHash)
       IN IF Slice(trimmed, 0, 2) = "0x" /\ Len(trimmed) >= 66 THEN Slice(trimmed, 0, 66)
          ELSE NULL

\* receipt?.field
ReceiptField(receipt, field) == IF receipt.isNull THEN UNDEFINED ELSE receipt[field]

EvmStatus(receipt) ==
  IF ReceiptField(receipt, "status") = "0x1" THEN "success"
  ELSE IF ReceiptField(receipt, "status") = "0x0" THEN "reverted"
  ELSE "pending_or_unknown"

\* the legacy gas price before the maximum fee per gas
EvmFeesLegacyPriceFirst(tx, receipt) ==
  LET rGasUsed == ReceiptField(receipt, "gasUsed")
      rL1Fee == ReceiptField(receipt, "l1Fee")
      rL1GasPrice == ReceiptField(receipt, "l1GasPrice")
      rL1GasUsed == ReceiptField(receipt, "l1GasUsed")
      rEffectiveGasPrice == ReceiptField(receipt, "effectiveGasPrice")
      hasL1 == ~Falsy(rL1Fee)
      Summary(ok, gasUsed, effectiveGasPrice, l2FeeWei, l1FeeWei, calculatedL1Fee) ==
        IF ~ok THEN [ok |-> FALSE]
        ELSE [ok |-> TRUE,
              gasUsed |-> gasUsed,
              effectiveGasPriceWei |-> effectiveGasPrice,
              totalFeeWei |-> BigToString(BigAdd(l2FeeWei, l1FeeWei)),
              l2FeeWei |-> BigToString(l2FeeWei),
              l1FeeWei |-> BigToString(calculatedL1Fee)]
      Derived(gasUsed, effectiveGasPrice, hasL2, derive, l2FeeWei, l1FeeWei,
              bGasUsed, bEffectiveGasPrice, bL1Fee, bL1GasPrice, bL1GasUsed) ==
        Summary(/\ hasL2 => bGasUsed.ok /\ bEffectiveGasPrice.ok
                /\ hasL1 => bL1Fee.ok
                /\ (hasL1 => bL1Fee.ok) /\ derive => bL1GasPrice.ok /\ bL1GasUsed.ok,
                gasUsed, effectiveGasPrice, l2FeeWei, l1FeeWei,
                IF derive THEN BigMul(bL1GasPrice.val, bL1GasUsed.val) ELSE l1FeeWei)
      Fees(gasUsed, effectiveGasPrice, hasL2,
           bGasUsed, bEffectiveGasPrice, bL1Fee, bL1GasPrice, bL1GasUsed) ==
        Derived(gasUsed, effectiveGasPrice, hasL2,
                (IF hasL1 THEN bL1Fee.val ELSE BigZero) = BigZero
                  /\ ~Falsy(rL1GasPrice) /\ ~Falsy(rL1GasUsed),
                IF hasL2 THEN BigMul(bGasUsed.val, bEffectiveGasPrice.val) ELSE BigZero,
                IF hasL1 THEN bL1Fee.val ELSE BigZero,
                bGasUsed, bEffectiveGasPrice, bL1Fee, bL1GasPrice, bL1GasUsed)
      Priced(gasUsed, effectiveGasPrice) ==
        Fees(gasUsed, effectiveGasPrice, ~Falsy(rGasUsed) /\ ~Falsy(effectiveGasPrice),
             BigInt(rGasUsed), BigInt(effectiveGasPrice), BigInt(rL1Fee),
             BigInt(rL1GasPrice), BigInt(rL1GasUsed))
  IN Priced(hexToDecimalString(rGasUsed),
            hexToDecimalString(IF ~Nullish(rEffectiveGasPrice) THEN rEffectiveGasPrice
                               ELSE IF ~Nullish(tx.gasPrice) THEN tx.gasPrice
                               ELSE IF ~Nullish(tx.maxFeePerGas) THEN tx.maxFeePerGas
                               ELSE "0x0"))

\* the fee fields of the summary; ok is FALSE when a BigInt(...) of the
\* computation throws
EvmFees(tx, receipt) ==
  LET rGasUsed == ReceiptField(receipt, "gasUsed")
      rL1Fee == ReceiptField(receipt, "l1Fee")
      rL1GasPrice == ReceiptField(receipt, "l1GasPrice")
      rL1GasUsed == ReceiptField(receipt, "l1GasUsed")
      rEffectiveGasPrice == ReceiptField(receipt, "effectiveGasPrice")
      hasL1 == ~Falsy(rL1Fee)
      Summary(ok, gasUsed, effectiveGasPrice, l2FeeWei, l1FeeWei, calculatedL1Fee) ==
        IF ~ok THEN [ok |-> FALSE]
        ELSE [ok |-> TRUE,
              gasUsed |-> gasUsed,
              effectiveGasPriceWei |-> effectiveGasPrice,
              totalFeeWei |-> BigToString(BigAdd(l2FeeWei, l1FeeWei)),
              l2FeeWei |-> BigToString(l2FeeWei),
              l1FeeWei |-> BigToString(calculatedL1Fee)]
      Derived(gasUsed, effectiveGasPrice, hasL2, derive, l2FeeWei, l1FeeWei,
              bGasUsed, bEffectiveGasPrice, bL1Fee, bL1GasPrice, bL1GasUsed) ==
        Summary(/\ hasL2 => bGasUsed.ok /\ bEffectiveGasPrice.ok
                /\ hasL1 => bL1Fee.ok
                /\ (hasL1 => bL1Fee.ok) /\ derive => bL1GasPrice.ok /\ bL1GasUsed.ok,
                gasUsed, effectiveGasPrice, l2FeeWei, l1FeeWei,
                IF derive THEN BigMul(bL1GasPrice.val, bL1GasUsed.val) ELSE l1FeeWei)
      Fees(gasUsed, effectiveGasPrice, hasL2,
           bGasUsed, bEffectiveGasPrice, bL1Fee, bL1GasPrice, bL1GasUsed) ==
        Derived(gasUsed, effectiveGasPrice, hasL2,
                (IF hasL1 THEN bL1Fee.val ELSE BigZero) = BigZero
                  /\ ~Falsy(rL1GasPrice) /\ ~Falsy(rL1GasUsed),
                IF hasL2 THEN BigMul(bGasUsed.val, bEffectiveGasPrice.val) ELSE BigZero,
                IF hasL1 THEN bL1Fee.val ELSE BigZero,
                bGasUsed, bEffectiveGasPrice, bL1Fee, bL1GasPrice, bL1GasUsed)
      Priced(gasUsed, effectiveGasPrice) ==
        Fees(gasUsed, effectiveGasPrice, ~Falsy(rGasUsed) /\ ~Falsy(effectiveGasPrice),
             BigInt(rGasUsed), BigInt(effectiveGasPrice), BigInt(rL1Fee),
             BigInt(rL1GasPrice), BigInt(rL1GasUsed))
  IN Priced(hexToDecimalString(rGasUsed),
            \* receipt?.effectiveGasPrice ?? tx.maxFeePerGas ?? tx.gasPrice ?? "0x0"
            hexToDecimalString(IF ~Nullish(rEffectiveGasPrice) THEN rEffectiveGasPrice
                               ELSE IF ~Nullish(tx.maxFeePerGas) THEN tx.maxFeePerGas
                               ELSE IF ~Nullish(tx.gasPrice) THEN tx.gasPrice
                               ELSE "0x0"))

\* the part of the handler after transaction and receipt were fetched
EvmExplanation(tx, receipt) ==
  LET Response(fees, tokenTransfers, actions) ==
        IF ~fees.ok
        THEN [status |-> 500, error |-> "Failed to explain transaction"]
        ELSE [status |-> 200,
              txHash |-> tx.hash,
              txStatus |-> EvmStatus(receipt),
              from |-> tx.from,
              to |-> tx.to,
              nativeValueWei |-> hexToDecimalString(tx.value),
              fees |-> fees,
              tokens |-> tokenTransfers,
              actions |-> actions,
              actionExplanations |-> [i \in 1..Len(actions) |-> explainEvm(actions[i])]]
      Classified(tokenTransfers) ==
        Response(EvmFees(tx, receipt), tokenTransfers, classifyActionsEvm(tx, tokenTransfers))
  IN Classified(IF receipt.isNull THEN <<>> ELSE parseTokenTransfers(receipt.logs))

\* fetch is what the two callRpc calls did: [outcome |-> "results", txIsNull,
\* tx, receipt] or [outcome |-> "rejected", cause] when either call threw
EvmGETResponse(rawTxHash, fetch) ==
  IF Falsy(EvmTxHash(rawTxHash))
  THEN [status |-> 400, error |-> "Invalid transaction hash"]
  ELSE IF fetch.outcome = "rejected"
  THEN [status |-> 500, error |-> "Failed to explain transaction"]
  ELSE IF fetch.txIsNull
  THEN [status |-> 404, error |-> "Transaction not found"]
  ELSE EvmExplanation(fetch.tx, fetch.receipt)

---------------------------------------------------------------------------
(* Inputs *)

MaxLen == 3
MaxEvents == 2
MaxChanges == 2
MaxLogs == 2

RECURSIVE StringsUpTo(_)
StringsUpTo(n) ==
  IF n = 0 THEN {""}
  ELSE StringsUpTo(n - 1) \cup {s \o c : s \in StringsUpTo(n - 1),
                                         c \in {"0", "1", "x", "a", "-", ".", " "}}

ShortStrings == StringsUpTo(MaxLen)

\* amounts with a whole part, a fraction and inner and trailing zeros at the
\* 6, 9 and 18 decimals of the tables
LongAmounts ==
  {p \o Repeat("0", k) \o q : p \in {"1", "12", "1234567"}, k \in {0, 5, 8, 17},
                             q \in {"", "5", "50", "05"}}
    \cup {"1500000", "21000000000000", "0x16e360", "-40", "-1500000000", "12345abc",
          "1234.5", "1e18"}

AmountInputs == ShortStrings \cup LongAmounts \cup {UNDEFINED}

\* the amounts every entry of a table is tried with; the other amounts go
\* with one entry
TableAmounts == LongAmounts \cup {UNDEFINED, "", "0", "1", "10", "a", "-1", "0x1", "1.1"}

ADDR_A == "0xa11ce00000000000000000000000000000000000000000000000000000000a11"
ADDR_B == "0xb0b0000000000000000000000000000000000000000000000000000000000b0b"

\* the listed types, the second also with its address in upper case, and
\* one that is not listed
CoinTypes ==
  {UNDEFINED, SUI_COIN, USDC_COIN, "0xabc::token::TOKEN",
   "0x5D4B302506645C37FF133B98C4B50A5AE14841659738D6D733D59D0D217A93BF::coin::COIN"}

USDC_TOKEN == "0xff970a61a04b1ca14834a43f5de4533ebddb5cc8"
DAI_TOKEN == "0xda10009cbd5d07dd0cecc66161fc93d7c9000da1"
OTHER_TOKEN == "0x1111111111111111111111111111111111111111"

SUI_DIGEST == "GX67hXSgrpKY3u9YoTkRbMG6Zvov4zJzeWdqAhPGnEbo"
HEX_DIGEST == "9f86d081884c7d659a2feaa0c55ad015a3bf4f1b2b0b822cd15d6c15b0f00a08"

\* ids the handlers accept and ids they reject
RawHashes == {SUI_DIGEST, HEX_DIGEST, " 0x" \o HEX_DIGEST \o " ", "0x" \o HEX_DIGEST,
              "tx/0x" \o HEX_DIGEST, "0x" \o Repeat("z", 64), "0x12", "not-a-digest", ""}

GasStrings == {UNDEFINED, "", "0", "10", "30", "50", "100", "abc", "0x1e", "1.5"}

SuiEvent(type, amount, coin_type, recipient, sender) ==
  [type |-> type,
   parsedJson |-> [amount |-> amount, coin_type |-> coin_type,
                   recipient |-> recipient, sender |-> sender]]

SuiEvents ==
  << SuiEvent("0x2::pay::TransferEvent", "1500000000", SUI_COIN, ADDR_B, ADDR_A),
     SuiEvent("0xabc::vault::Transfer", "1500000", UNDEFINED, ADDR_B, UNDEFINED),
     SuiEvent("0x2::pay::TransferEvent", "250", USDC_COIN, UNDEFINED, ADDR_A),
     SuiEvent("0x3::staking::StakeEvent", "7", SUI_COIN, ADDR_B, ADDR_A),
     SuiEvent(UNDEFINED, UNDEFINED, UNDEFINED, UNDEFINED, UNDEFINED),
     SuiEvent("0xabc::vault::TransferEvent", "-40", "0xabc::token::TOKEN", ADDR_A, ADDR_B),
     SuiEvent("0x2::pay::TransferEvent", "1500000", "0xabc::token::TOKEN", ADDR_B, ADDR_A) >>

\* the sequence of the elements of `items` at the positions `indices`
Pick(items, indices) == [i \in 1..Len(indices) |-> items[indices[i]]]

\* the lists of at most n elements of a sequence of items, as index lists
RECURSIVE IndexLists(_, _)
IndexLists(items, n) ==
  IF n = 0 THEN {<<>>}
  ELSE IndexLists(items, n - 1)
         \cup {Append(q, i) : q \in IndexLists(items, n - 1), i \in 1..Len(items)}

ObjectChange(type, objectId, objectType, sender, recipient) ==
  [type |-> type, objectId |-> objectId, objectType |-> objectType,
   sender |-> sender, recipient |-> recipient]

ObjectChanges ==
  << ObjectChange("created", "0xc0ffee0000000001", "0x2::coin::Coin", ADDR_A, UNDEFINED),
     ObjectChange("transferred", "0xdeadbeef00000002", "0xabc::nft::Hero", ADDR_A, ADDR_B),
     ObjectChange("transferred", UNDEFINED, "0xabc::nft::Hero", UNDEFINED, UNDEFINED),
     ObjectChange("transferred", "0xfeed000000000003", "0x2::coin::Coin", ADDR_A, ADDR_B),
     ObjectChange("mutated", "0xfeed000000000004", "0x2::coin::Coin", ADDR_A, UNDEFINED) >>

MoveCommand(isMoveCall, package, module, function) ==
  [MoveCall |-> isMoveCall, package |-> package, module |-> module, function |-> function]

SuiKind(tag, str, commands) == [tag |-> tag, str |-> str, commands |-> commands]

SuiKinds ==
  << SuiKind("absent", "", <<>>),
     SuiKind("string", "TransferObject", <<>>),
     SuiKind("string", "ProgrammableTransaction", <<>>),
     SuiKind("object", "", <<>>),
     SuiKind("programmable", "", << MoveCommand(TRUE, "0x2", "pay", "split") >>),
     SuiKind("programmable", "",
             << MoveCommand(TRUE, USDC_COIN, "coin", "mint"),
                MoveCommand(FALSE, UNDEFINED, UNDEFINED, UNDEFINED),
                MoveCommand(TRUE, UNDEFINED, UNDEFINED, UNDEFINED) >>) >>

SuiTxBlock(status, hasTransactionData, sender, kind, gasUsed, events, objectChanges) ==
  [digest |-> SUI_DIGEST, status |-> status, hasTransactionData |-> hasTransactionData,
   sender |-> sender, kind |-> kind, gasUsed |-> gasUsed, events |-> events,
   objectChanges |-> objectChanges]

SuiGas(computationCost, storageCost, storageRebate) ==
  [computationCost |-> computationCost, storageCost |-> storageCost,
   storageRebate |-> storageRebate]

NoSuiBlock ==
  SuiTxBlock(UNDEFINED, FALSE, UNDEFINED, SuiKind("absent", "", <<>>),
             SuiGas(UNDEFINED, UNDEFINED, UNDEFINED), [kind |-> "absent", items |-> <<>>], <<>>)

\* what the ledger client did: it returned a record, returned nothing, or
\* threw, because the ledger has no such transaction or because the
\* request itself failed
SuiFetched(txBlock) == [outcome |-> "record", cause |-> "", txBlock |-> txBlock]
SuiNotFetched ==
  {[outcome |-> "null", cause |-> "", txBlock |-> NoSuiBlock],
   [outcome |-> "rejected", cause |-> "no such transaction", txBlock |-> NoSuiBlock],
   [outcome |-> "rejected", cause |-> "request failed", txBlock |-> NoSuiBlock]}

\* a 32-byte word holding an address or a small number in its low bytes
Word(low) == "0x" \o Repeat("0", 64 - Len(low)) \o low
WORD_A == Word("a11ce00000000000000000000000000000000a11")
WORD_B == Word("b0b0000000000000000000000000000000000b0b")
WORD_OP == Word("0e0e000000000000000000000000000000000e0e")

EvmLog(address, topics, data) == [address |-> address, topics |-> topics, data |-> data]

EvmLogs ==
  << EvmLog(USDC_TOKEN, <<ERC20_TRANSFER_TOPIC, WORD_A, WORD_B>>, Word("16e360")),
     EvmLog(DAI_TOKEN,
            <<"0xDDF252AD1BE2C89B69C2B068FC378DAA952BA7F163C4A11628F55A4DF523B3EF", WORD_A, WORD_B>>,
            ""),
     EvmLog(OTHER_TOKEN, <<ERC721_TRANSFER_TOPIC, WORD_A, WORD_B, Word("2a")>>, "0x"),
     EvmLog(OTHER_TOKEN, <<ERC1155_TRANSFER_SINGLE_TOPIC, WORD_OP, WORD_A, WORD_B>>,
            Word("07") \o SliceFrom(Word("03"), 2)),
     EvmLog(OTHER_TOKEN, <<ERC1155_TRANSFER_SINGLE_TOPIC, WORD_OP, WORD_A, WORD_B>>, Word("07")),
     EvmLog(OTHER_TOKEN, <<ERC1155_TRANSFER_BATCH_TOPIC, WORD_OP, WORD_A, WORD_B>>,
            Word("09") \o SliceFrom(Word("04"), 2)),
     EvmLog(OTHER_TOKEN, <<Word("feed"), WORD_A, WORD_B>>, Word("01")),
     EvmLog(OTHER_TOKEN, <<ERC20_TRANSFER_TOPIC, WORD_A>>, Word("01")),
     EvmLog(OTHER_TOKEN, <<>>, Word("01")),
     EvmLog(OTHER_TOKEN, <<ERC20_TRANSFER_TOPIC, WORD_B, WORD_A>>, Word("14d1120d7b160000")) >>

EVM_TO == "0xC31E54c7a869b9fcbecc14363cf510d1c41fa443"

EvmTx(to, inputData, gasPrice, maxFeePerGas) ==
  [hash |-> "0x" \o HEX_DIGEST, from |-> "0xA11CE00000000000000000000000000000000A11",
   to |-> to, value |-> "0xde0b6b3a7640000",
   input |-> inputData, gasPrice |-> gasPrice, maxFeePerGas |-> maxFeePerGas]

EvmReceipt(isNull, status, gasUsed, effectiveGasPrice, l1Fee, l1GasPrice, l1GasUsed, logs) ==
  [isNull |-> isNull, status |-> status, gasUsed |-> gasUsed,
   effectiveGasPrice |-> effectiveGasPrice, l1Fee |-> l1Fee, l1GasPrice |-> l1GasPrice,
   l1GasUsed |-> l1GasUsed, logs |-> logs]

NullReceipt ==
  EvmReceipt(TRUE, UNDEFINED, UNDEFINED, UNDEFINED, UNDEFINED, UNDEFINED, UNDEFINED, <<>>)

NoEvmTx == EvmTx(NULL, "0x", UNDEFINED, UNDEFINED)

\* the action types of both variants and two that neither knows
ActionTypesTried ==
  {"COIN_TRANSFER", "NFT_TRANSFER", "OBJECT_CREATED", "MOVE_CALL", "CONTRACT_CALL",
   "STAKING", "SWAP", "ERC20_TRANSFER", "ERC721_TRANSFER", "ERC1155_TRANSFER",
   "TELEPORT", ""}

\* what the two RPC calls did: both returned (the transaction may be null),
\* or one of them threw
EvmFetched(tx, receipt) ==
  [outcome |-> "results", txIsNull |-> FALSE, tx |-> tx, receipt |-> receipt]
EvmNotFetched ==
  {[outcome |-> "results", txIsNull |-> TRUE, tx |-> NoEvmTx, receipt |-> NullReceipt],
   [outcome |-> "rejected", txIsNull |-> TRUE, tx |-> NoEvmTx, receipt |-> NullReceipt]}

---------------------------------------------------------------------------
(* The state: the operation that last ran, what it was given and what it   *)
(* returned.  Every operation is a pure function of its input (the route   *)
(* handlers of what the ledger returned), so a run is a sequence of calls. *)

VARIABLES op, input, output

\* The route handlers are asynchronous: an invocation is suspended while the
\* ledger answers and others run meanwhile.  calls holds the invocations
\* that are being served, ensCache the module-level Map of the gas-price
\* handler.
VARIABLES calls, ensCache
serverVars == <<calls, ensCache>>

\* The state of the page component: input (here inputValue), loading,
\* error and result of HomeContent, whether its mount effect
\* has run, the requests it sent that are not settled yet and the number of
\* requests it has started.
VARIABLES inputValue, loading, error, result, mounted, inFlight, started
pageVars == <<inputValue, loading, error, result, mounted, inFlight, started>>

vars == <<op, input, output, serverVars, pageVars>>

\* input and output between two calls
Nothing == [nothing |-> TRUE]

\* what a call that returns a string returned
Returned(value) == [returned |-> value]

\* result while no explanation is shown: null
NoResult == [request |-> 0, txDigest |-> NULL]

\* the number of invocations a handler may be serving at a time
MaxInvocations == 2

Invocations == 1..MaxInvocations

\* an invocation slot that serves no request
NoCall ==
  [pc |-> "idle", handler |-> "", rawTxHash |-> "", fetch |-> Nothing, response |-> Nothing]

Init ==
  /\ op = "none" /\ input = Nothing /\ output = Nothing
  /\ calls = [i \in Invocations |-> NoCall]
  /\ ensCache = {}
  /\ inputValue = "" /\ loading = FALSE /\ error = NULL /\ result = NoResult
  /\ mounted = FALSE /\ inFlight = {} /\ started = 0

Idle == op = "none"

CallHexToDecimalString ==
  /\ UNCHANGED <<serverVars, pageVars>>
  /\ Idle
  /\ \E hex \in AmountInputs \cup {NULL, "0b101", "0o17", "0XFF", "+15"} :
       /\ op' = "hexToDecimalString"
       /\ input' = [hex |-> hex]
       /\ output' = Returned(hexToDecimalString(hex))

CallFormatCoinAmount ==
  /\ UNCHANGED <<serverVars, pageVars>>
  /\ Idle
  /\ \E rawAmount \in AmountInputs :
     \E coinType \in IF rawAmount \in TableAmounts THEN CoinTypes ELSE {SUI_COIN} :
       /\ op' = "formatCoinAmount"
       /\ input' = [coinType |-> coinType, rawAmount |-> rawAmount]
       /\ output' = formatCoinAmount(coinType, rawAmount)

CallFormatTokenAmount ==
  /\ UNCHANGED <<serverVars, pageVars>>
  /\ Idle
  /\ \E rawAmount \in AmountInputs :
     \E tokenContract \in IF rawAmount \in TableAmounts
                           THEN {UNDEFINED, USDC_TOKEN, DAI_TOKEN, OTHER_TOKEN,
                                 "0xFF970A61A04b1ca14834a43f5de4533ebddb5cc8"}
                           ELSE {USDC_TOKEN} :
       /\ op' = "formatTokenAmount"
       /\ input' = [tokenContract |-> tokenContract, rawAmount |-> rawAmount]
       /\ output' = formatTokenAmount(tokenContract, rawAmount)

CallFormatMistToSui ==
  /\ UNCHANGED <<serverVars, pageVars>>
  /\ Idle
  /\ \E mist \in AmountInputs :
       /\ op' = "formatMistToSui"
       /\ input' = [rawAmount |-> mist]
       /\ output' = Returned(formatMistToSui(mist))

CallFormatWeiToEth ==
  /\ UNCHANGED <<serverVars, pageVars>>
  /\ Idle
  /\ \E wei \in AmountInputs :
       /\ op' = "formatWeiToEth"
       /\ input' = [rawAmount |-> wei]
       /\ output' = Returned(formatWeiToEth(wei))

CallClientFormatCoinAmount ==
  /\ UNCHANGED <<serverVars, pageVars>>
  /\ Idle
  /\ \E rawAmount \in AmountInputs :
     \E coinType \in IF rawAmount \in TableAmounts THEN CoinTypes ELSE {SUI_COIN} :
       /\ op' = "clientFormatCoinAmount"
       /\ input' = [coinType |-> coinType, rawAmount |-> rawAmount]
       /\ output' = clientFormatCoinAmount(coinType, rawAmount)

\* explain with any type, any optional field absent and any amount string
CallExplainSui ==
  /\ UNCHANGED <<serverVars, pageVars>>
  /\ Idle
  /\ \E type \in ActionTypesTried, from \in {UNDEFINED, ADDR_A},
        to \in {UNDEFINED, NULL, ADDR_B},
        coinType \in {UNDEFINED, SUI_COIN, USDC_COIN, "0x2::pay"},
        amount \in {UNDEFINED, "", "1500000", "3", "abc", "-40"},
        objectId \in {UNDEFINED, "0xdeadbeef00000002"} :
       /\ op' = "explainSui"
       /\ input' = [action |-> SuiAction(type, "", from, to, coinType, amount, objectId)]
       /\ output' = Returned(explainSui(input'.action))

CallExplainEvm ==
  /\ UNCHANGED <<serverVars, pageVars>>
  /\ Idle
  /\ \E type \in ActionTypesTried, from \in {UNDEFINED, ADDR_A},
        to \in {UNDEFINED, NULL, EVM_TO, ADDR_B},
        tokenContract \in {UNDEFINED, USDC_TOKEN, OTHER_TOKEN},
        tokenId \in {UNDEFINED, "42", "batch"},
        amount \in {UNDEFINED, "", "1500000", "multiple", "-40"} :
       /\ op' = "explainEvm"
       /\ input' = [action |-> EvmAction(type, "", from, to, tokenContract, tokenId, amount)]
       /\ output' = Returned(explainEvm(input'.action))

\* a request: the id in the path and what the ledger then did
Request(rawTxHash, fetch) == [rawTxHash |-> rawTxHash, fetch |-> fetch]

\* every id with every fetch that brings no record; the accepted id with
\* records that vary the fee inputs, with records that vary sender, kind and
\* events (the lists of several events with one kind), with records that
\* vary the object changes, and with records whose events are missing or
\* are not a list
SuiRequests ==
  {Request(rawTxHash, fetch) : rawTxHash \in RawHashes, fetch \in SuiNotFetched}
  \cup
  {Request(SUI_DIGEST,
     SuiFetched(SuiTxBlock("success", TRUE, ADDR_A, SuiKinds[1], SuiGas(c, s, r),
                           [kind |-> "absent", items |-> <<>>], <<>>))) :
     c \in GasStrings, s \in GasStrings, r \in GasStrings}
  \cup
  {Request(SUI_DIGEST,
     SuiFetched(SuiTxBlock("failure", q[1], q[2], SuiKinds[q[3]],
                           SuiGas("1000", "2000", "500"),
                           [kind |-> "array", items |-> Pick(SuiEvents, q[4])],
                           Pick(ObjectChanges, <<1, 2>>)))) :
     q \in {q \in BOOLEAN \X {UNDEFINED, ADDR_A} \X (1..Len(SuiKinds))
                    \X IndexLists(SuiEvents, MaxEvents) :
              /\ ~q[1] => q[2] = UNDEFINED /\ q[3] = 1
              /\ Len(q[4]) > 1 => q[1] /\ q[3] = 5}}
  \cup
  {Request(SUI_DIGEST,
     SuiFetched(SuiTxBlock("success", TRUE, ADDR_A, SuiKinds[k],
                           SuiGas("1000", "2000", "500"),
                           [kind |-> "array", items |-> Pick(SuiEvents, <<1>>)],
                           Pick(ObjectChanges, ch)))) :
     k \in {1, 5, 6}, ch \in IndexLists(ObjectChanges, MaxChanges)}
  \cup
  {Request(SUI_DIGEST,
     SuiFetched(SuiTxBlock(UNDEFINED, TRUE, ADDR_A, SuiKinds[1],
                           SuiGas(UNDEFINED, UNDEFINED, UNDEFINED),
                           [kind |-> evKind, items |-> <<>>], Pick(ObjectChanges, ch)))) :
     evKind \in {"absent", "notIterable"}, ch \in IndexLists(ObjectChanges, 1)}

SuiGET ==
  /\ UNCHANGED <<serverVars, pageVars>>
  /\ Idle
  /\ \E request \in SuiRequests :
       /\ op' = "SuiGET"
       /\ input' = request
       /\ output' = SuiGETResponse(request.rawTxHash, request.fetch)

\* every id with every fetch that brings no transaction; the accepted id
\* with receipts that vary the fee inputs, with transactions that vary the
\* price fields, with receipts that vary the logs, with transactions that
\* vary recipient and call data, and with no receipt
EvmRequests ==
  {Request(rawTxHash, fetch) : rawTxHash \in RawHashes, fetch \in EvmNotFetched}
  \cup
  {Request("0x" \o HEX_DIGEST,
     EvmFetched(EvmTx(EVM_TO, "0x", "0x3", UNDEFINED),
                EvmReceipt(FALSE, "0x1", gu, egp, l1f, l1p, l1u, <<>>))) :
     gu \in {UNDEFINED, "", "0x5208", "21000", "abc"},
     egp \in {UNDEFINED, "0x3b9aca00", "zz"},
     l1f \in {UNDEFINED, "0x0", "0x64", "bad"},
     l1p \in {UNDEFINED, "0x2", "q"},
     l1u \in {UNDEFINED, "0x3"}}
  \cup
  {Request("0x" \o HEX_DIGEST,
     EvmFetched(EvmTx(EVM_TO, "0x", gp, mf),
                EvmReceipt(FALSE, "0x1", "0x5208", egp, UNDEFINED, UNDEFINED,
                           UNDEFINED, <<>>))) :
     gp \in {UNDEFINED, NULL, "", "0x3"}, mf \in {UNDEFINED, NULL, "", "0x2"},
     egp \in {UNDEFINED, NULL, "", "0x3b9aca00"}}
  \cup
  {Request("0x" \o HEX_DIGEST,
     EvmFetched(EvmTx(EVM_TO, "0xa9059cbb", "0x3b9aca00", UNDEFINED),
                EvmReceipt(FALSE, "0x0", "0x5208", "0x3b9aca00", UNDEFINED, UNDEFINED,
                           UNDEFINED, Pick(EvmLogs, logs)))) :
     logs \in IndexLists(EvmLogs, MaxLogs)}
  \cup
  {Request("0x" \o HEX_DIGEST,
     EvmFetched(EvmTx(to, inp, "0x3b9aca00", UNDEFINED),
                IF isNull THEN NullReceipt
                ELSE EvmReceipt(FALSE, UNDEFINED, "0x5208", "0x3b9aca00", UNDEFINED,
                                UNDEFINED, UNDEFINED, Pick(EvmLogs, <<1, 3>>)))) :
     to \in {NULL, EVM_TO}, inp \in {"0x", "0xa9059cbb"}, isNull \in BOOLEAN}

EvmGET ==
  /\ UNCHANGED <<serverVars, pageVars>>
  /\ Idle
  /\ \E request \in EvmRequests :
       /\ op' = "EvmGET"
       /\ input' = request
       /\ output' = EvmGETResponse(request.rawTxHash, request.fetch)

\* the page renders the flow section from the response it received
RenderTransactionFlow ==
  /\ UNCHANGED <<serverVars, pageVars>>
  /\ op \in {"SuiGET", "EvmGET"}
  /\ output.status = 200
  /\ op' = "TransactionFlow"
  /\ input' = [data |-> output]
  /\ output' = [flows |-> TransactionFlow(output), data |-> output]

\* GasBreakdown: the four amounts of summary.gasUsed as they are displayed
GasBreakdown(gasUsed) ==
  [totalSui |-> formatMistToSui(gasUsed.total),
   computationCost |-> formatMistToSui(gasUsed.computationCost),
   storageCost |-> formatMistToSui(gasUsed.storageCost),
   storageRebate |-> formatMistToSui(gasUsed.storageRebate)]

\* the page renders the gas section from the response it received
RenderGasBreakdown ==
  /\ UNCHANGED <<serverVars, pageVars>>
  /\ op = "SuiGET"
  /\ output.status = 200
  /\ op' = "GasBreakdown"
  /\ input' = [gasUsed |-> output.gasUsed]
  /\ output' = GasBreakdown(output.gasUsed)

\* the call returns; the next one starts from nothing
Return ==
  /\ UNCHANGED <<serverVars, pageVars>>
  /\ ~Idle
  /\ op' = "none" /\ input' = Nothing /\ output' = Nothing

Next ==
  \/ CallHexToDecimalString
  \/ CallFormatCoinAmount
  \/ CallFormatTokenAmount
  \/ CallFormatMistToSui
  \/ CallFormatWeiToEth
  \/ CallClientFormatCoinAmount
  \/ CallExplainSui
  \/ CallExplainEvm
  \/ SuiGET
  \/ EvmGET
  \/ RenderTransactionFlow
  \/ RenderGasBreakdown
  \/ Return

Spec == Init /\ [][Next]_vars

---------------------------------------------------------------------------
(* Concurrent invocations of the route handlers.  GET runs up to its await *)
(* of the ledger, is suspended there while other invocations run, and       *)
(* resumes with what the ledger returned.                                   *)

\* the ids and the ledger answers the concurrent invocations are run with,
\* by handler
ConcurrentRequests(handler) ==
  IF handler = "SuiGET"
  THEN {Request(rawTxHash, fetch) :
          rawTxHash \in {SUI_DIGEST, "abc"},
          fetch \in SuiNotFetched \cup
            {SuiFetched(SuiTxBlock("success", TRUE, ADDR_A, SuiKinds[1],
                                   SuiGas("1000", "2000", "500"),
                                   [kind |-> "array", items |-> Pick(SuiEvents, <<1>>)],
                                   Pick(ObjectChanges, <<1>>)))}}
  ELSE {Request(rawTxHash, fetch) :
          rawTxHash \in {"0x" \o HEX_DIGEST, "abc"},
          fetch \in EvmNotFetched \cup
            {EvmFetched(EvmTx(EVM_TO, "0xa9059cbb", "0x3b9aca00", UNDEFINED),
                        EvmReceipt(FALSE, "0x1", "0x5208", "0x3b9aca00", UNDEFINED,
                                   UNDEFINED, UNDEFINED, Pick(EvmLogs, <<1>>)))}}

\* the request of another invocation answered: the id of the first slot,
\* as if it were kept in a variable of the module
ResponseOfSharedId(handler, rawTxHash, fetch) ==
  LET Answer(id) ==
        IF handler = "SuiGET" THEN SuiGETResponse(id, fetch) ELSE EvmGETResponse(id, fetch)
  IN Answer(IF fetch # Nothing /\ calls[1].pc # "idle" THEN calls[1].rawTxHash
            ELSE rawTxHash)

\* what GET answers: computed from the locals of the invocation alone
ResponseOf(handler, rawTxHash, fetch) ==
  IF handler = "SuiGET"
  THEN SuiGETResponse(rawTxHash, fetch)
  ELSE EvmGETResponse(rawTxHash, fetch)

\* GET up to its first return or await: a rejected id is answered at once,
\* otherwise the invocation waits for the ledger
GETStart(i) ==
  /\ calls[i].pc = "idle"
  /\ \E handler \in {"SuiGET", "EvmGET"} :
     \E rawTxHash \in {request.rawTxHash : request \in ConcurrentRequests(handler)} :
     \E rejected \in {Falsy(IF handler = "SuiGET" THEN SuiTxDigest(rawTxHash)
                                                  ELSE EvmTxHash(rawTxHash))} :
       calls' = [calls EXCEPT ![i] =
                   [pc |-> IF rejected THEN "done" ELSE "awaiting",
                    handler |-> handler,
                    rawTxHash |-> rawTxHash,
                    fetch |-> Nothing,
                    response |-> IF rejected THEN ResponseOf(handler, rawTxHash, Nothing)
                                 ELSE Nothing]]
  /\ UNCHANGED <<op, input, output, ensCache, pageVars>>

\* the ledger answers and GET runs to its return; resolveENS is not called
\* on the way, so the cache is left alone
GETResume(i) ==
  /\ calls[i].pc = "awaiting"
  /\ \E handler \in {calls[i].handler} :
     \E rawTxHash \in {calls[i].rawTxHash} :
     \E fetch \in {request.fetch : request \in ConcurrentRequests(handler)} :
       calls' = [calls EXCEPT ![i] =
                   [pc |-> "done", handler |-> handler, rawTxHash |-> rawTxHash,
                    fetch |-> fetch, response |-> ResponseOf(handler, rawTxHash, fetch)]]
  /\ UNCHANGED <<op, input, output, ensCache, pageVars>>

\* the response is sent and the invocation is over
GETFinish(i) ==
  /\ calls[i].pc = "done"
  /\ calls' = [calls EXCEPT ![i] = NoCall]
  /\ UNCHANGED <<op, input, output, ensCache, pageVars>>

ServerNext ==
  \E i \in Invocations : GETStart(i) \/ GETResume(i) \/ GETFinish(i)

ServerSpec == Init /\ [][ServerNext]_vars

---------------------------------------------------------------------------
(* The page: handleExplain is started by the mount effect (the tx          *)
(* parameter of the URL) or by a submit of the form, sends one request and *)
(* continues when the request settles.                                     *)

\* the number of requests the page may start
MaxRequests == 3

\* what is pasted into the form or found in the URL
PageInputs ==
  {"", "  ", "abc", SUI_DIGEST, " 0x" \o HEX_DIGEST \o " ",
   "https://suiexplorer.com/txblock/" \o SUI_DIGEST \o "?network=mainnet"}

\* extractTxDigest: a run of 64 hex digits, the whole input as a base58
\* digest, or the first base58 run of 32 to 44 characters after a / or =
extractTxDigest(raw) ==
  IF Falsy(raw) THEN NULL
  ELSE
    LET trimmed == Trim(raw)
        IsBase58Run(i, n) ==
          i + n - 1 <= Len(trimmed) /\ AllChars(SubSeq(trimmed, i, i + n - 1), IsBase58Char)
        starts == {i \in 1..Len(trimmed) :
                     CharAt(trimmed, i) \in {"/", "="} /\ IsBase58Run(i + 1, 32)}
        Captured(i) == SubSeq(trimmed, i + 1, i + Max({n \in 32..44 : IsBase58Run(i + 1, n)}))
    IN IF ~Falsy(SuiTxDigest(trimmed)) THEN SuiTxDigest(trimmed)
       ELSE IF starts # {} THEN Captured(Min(starts))
       ELSE NULL

INVALID_DIGEST ==
  "Invalid transaction digest format. Please paste a Sui transaction digest (base58 or hex format) or a Sui Explorer link."

\* handleExplain up to its return or its await of fetch
handleExplain(raw) ==
  \E digest \in {extractTxDigest(Trim(raw))} :
    IF Falsy(digest)
    THEN /\ error' = INVALID_DIGEST
         /\ result' = NoResult
         /\ UNCHANGED <<loading, inFlight, started>>
    ELSE /\ error' = NULL
         /\ result' = NoResult
         /\ loading' = TRUE
         /\ started' = started + 1
         /\ inFlight' = inFlight \cup {[request |-> started + 1, digest |-> digest]}

\* the mount effect: it runs once and explains the tx parameter if there
\* is one
Mount ==
  /\ ~mounted
  /\ mounted' = TRUE
  /\ \E txHash \in PageInputs \cup {NULL} :
       IF ~Falsy(txHash) /\ result = NoResult
       THEN inputValue' = txHash /\ handleExplain(txHash)
       ELSE UNCHANGED <<inputValue, loading, error, result, inFlight, started>>
  /\ UNCHANGED <<op, input, output, serverVars>>

\* the text field is changed; it is disabled while loading
Type ==
  /\ mounted
  /\ ~loading
  /\ \E typed \in PageInputs : typed # inputValue /\ inputValue' = typed
  /\ UNCHANGED <<loading, error, result, mounted, inFlight, started>>
  /\ UNCHANGED <<op, input, output, serverVars>>

\* the button disabled for an empty text only, whatever is in flight
SubmitDisabledWhenEmpty == Trim(inputValue) = ""

\* TxInput: the submit button is disabled while loading and for an empty
\* text
SubmitDisabled == loading \/ Trim(inputValue) = ""

\* a submit of the form
Submit ==
  /\ mounted
  /\ started < MaxRequests
  /\ ~SubmitDisabled
  /\ handleExplain(inputValue)
  /\ UNCHANGED <<inputValue, mounted, op, input, output, serverVars>>

\* handleExplain after its await: the request was answered with an
\* explanation, answered with an error status, or it failed
FetchSettles ==
  /\ \E r \in inFlight :
     \E outcome \in {"ok", "notFound", "noMessage", "failed", "thrown"} :
       /\ inFlight' = inFlight \ {r}
       /\ loading' = FALSE
       /\ IF outcome = "ok"
          THEN result' = [request |-> r.request, txDigest |-> r.digest] /\ UNCHANGED error
          ELSE /\ error' = CASE outcome = "notFound" -> "Transaction not found on Sui Mainnet"
                             [] outcome = "noMessage" -> "Failed to explain transaction."
                             [] outcome = "failed" -> "Failed to fetch"
                             [] OTHER -> "Unexpected error while fetching explanation."
               /\ UNCHANGED result
  /\ UNCHANGED <<inputValue, mounted, started, op, input, output, serverVars>>

PageNext == Mount \/ Type \/ Submit \/ FetchSettles

PageSpec == Init /\ [][PageNext]_vars

---------------------------------------------------------------------------
(* Properties *)

\* the handler of the running call explained a transaction
Explained(handler) == op = handler /\ output.status = 200

ExplainOf(handler, action) ==
  IF handler = "SuiGET" THEN explainSui(action) ELSE explainEvm(action)

\* C1: whenever a GET handler (of either ledger) explains a transaction,
\* actionExplanations is as long as actions, and actionExplanations[i] is
\* the sentence explain produces for actions[i], for every index i.
C1_ExplanationsAlignWithActions ==
  \A handler \in {"SuiGET", "EvmGET"} :
    Explained(handler) =>
      /\ Len(output.actionExplanations) = Len(output.actions)
      /\ \A i \in 1..Len(output.actions) :
           output.actionExplanations[i] = ExplainOf(handler, output.actions[i])

\* an explained object-model transaction with a coin transfer, a creation
\* summary, a non-fungible transfer and a call, explained by four
\* different sentences
C1_Witness ==
  /\ Explained("SuiGET")
  /\ Len(output.actions) = 4
  /\ Cardinality({output.actionExplanations[i] : i \in 1..4}) = 4

ActionTypes(actions) == [i \in 1..Len(actions) |-> actions[i].type]

IsCallType(type) == type \in {"MOVE_CALL", "CONTRACT_CALL"}

\* the actions come in the order of the groups: group is a function from
\* the action types to the position of their group
InGroupOrder(actions, group) ==
  \A i, j \in 1..Len(actions) :
    i < j => group[actions[i].type] <= group[actions[j].type]

SuiActionTypes == {"COIN_TRANSFER", "NFT_TRANSFER", "OBJECT_CREATED", "MOVE_CALL", "CONTRACT_CALL"}

TransfersCreationCalls ==
  [type \in SuiActionTypes |->
     IF type \in {"COIN_TRANSFER", "NFT_TRANSFER"} THEN 1
     ELSE IF type = "OBJECT_CREATED" THEN 2 ELSE 3]

CoinCreationNftCalls ==
  [type \in SuiActionTypes |->
     IF type = "COIN_TRANSFER" THEN 1
     ELSE IF type = "OBJECT_CREATED" THEN 2
     ELSE IF type = "NFT_TRANSFER" THEN 3 ELSE 4]

\* the record of the running object-model call has one fungible transfer,
\* two created objects, no non-fungible transfer and one call
OneTransferTwoCreatedOneCall ==
  LET txBlock == input.fetch.txBlock
  IN /\ Len(output.coins) = 1
     /\ CreatedCount(txBlock.objectChanges) = 2
     /\ NftTransfers(txBlock.objectChanges) = <<>>
     /\ Len(CallActions(txBlock)) = 1

\* C2 as the specification states it: the object-model classifyActions emits
\* all transfer actions (coin and non-fungible), then the creation summary,
\* then the call interactions: no transfer action after the creation
\* summary and no call interaction before it.
C2_TransfersThenCreationThenCalls ==
  Explained("SuiGET") => InGroupOrder(output.actions, TransfersCreationCalls)

\* C2, amended: the object-model classifyActions emits the coin-transfer
\* actions, then the creation summary if any, then the non-fungible
\* transfer actions, then the call interactions; given one fungible
\* transfer, two created objects and one call the sequence is exactly
\* [transfer, creation summary, call interaction].
C2_CoinThenCreationThenNftThenCalls ==
  Explained("SuiGET") =>
    /\ InGroupOrder(output.actions, CoinCreationNftCalls)
    /\ Cardinality({i \in 1..Len(output.actions) :
                      output.actions[i].type = "OBJECT_CREATED"}) <= 1
    /\ OneTransferTwoCreatedOneCall =>
         /\ Len(output.actions) = 3
         /\ output.actions[1].type = "COIN_TRANSFER"
         /\ output.actions[2].type = "OBJECT_CREATED" /\ output.actions[2].amount = "2"
         /\ IsCallType(output.actions[3].type)

\* a transaction whose non-fungible transfer is reported after the creation
\* summary, between a coin transfer and a call
C2_Witness ==
  /\ Explained("SuiGET")
  /\ ActionTypes(output.actions) = <<"COIN_TRANSFER", "OBJECT_CREATED", "NFT_TRANSFER", "MOVE_CALL">>


\* the first topic of the log is the Transfer signature, in any letter case
HasTransferSignature(log) ==
  Len(log.topics) >= 1 /\ ToLowerCase(log.topics[1]) = ToLowerCase(ERC20_TRANSFER_TOPIC)

TransferKindOfTopics(log) == IF Len(log.topics) = 3 THEN "ERC20" ELSE "ERC721"

\* C3: parseTokenTransfers decodes a log whose first topic is the Transfer
\* signature (compared case-insensitively) as an ERC20 transfer when it has
\* exactly 3 topics and as an ERC721 transfer when it has exactly 4, so two
\* logs with the same signature and 3 vs 4 topics never decode to the same
\* kind.
C3_TopicCountDecidesTransferKind ==
  Explained("EvmGET") =>
    LET logs == input.fetch.receipt.logs
    IN (\A i \in 1..Len(logs) :
          HasTransferSignature(logs[i]) /\ Len(logs[i].topics) \in {3, 4})
       => /\ Len(output.tokens) = Len(logs)
          /\ \A i \in 1..Len(logs) :
               output.tokens[i].transferType = TransferKindOfTopics(logs[i])
          /\ \A i, j \in 1..Len(logs) :
               Len(logs[i].topics) # Len(logs[j].topics)
                 => output.tokens[i].transferType # output.tokens[j].transferType

\* a receipt with a 3-topic log whose signature is in upper case and a
\* 4-topic log with the same signature, decoded to the two kinds
C3_Witness ==
  /\ Explained("EvmGET")
  /\ Len(input.fetch.receipt.logs) = 2
  /\ Len(input.fetch.receipt.logs[1].topics) = 3
  /\ Len(input.fetch.receipt.logs[2].topics) = 4
  /\ input.fetch.receipt.logs[1].topics[1] # ERC20_TRANSFER_TOPIC
  /\ HasTransferSignature(input.fetch.receipt.logs[1])
  /\ HasTransferSignature(input.fetch.receipt.logs[2])
  /\ output.tokens[1].transferType = "ERC20"
  /\ output.tokens[2].transferType = "ERC721"


\* the sum of two decimal strings, as a decimal string
DecimalSum(a, b) == BigToString(BigAdd(BigInt(a).val, BigInt(b).val))

\* C4: in the fee breakdown of the gas-price handler the reported total is
\* the reported execution fee plus the reported L1 fee of the same result:
\* totalFeeWei = l2FeeWei + l1FeeWei, for every receipt, whether the L1 fee
\* was reported by the receipt or derived from l1GasPrice * l1GasUsed.
C4_TotalIsSumOfReportedFees ==
  Explained("EvmGET") =>
    output.fees.totalFeeWei = DecimalSum(output.fees.l2FeeWei, output.fees.l1FeeWei)


\* a + b - c of decimal strings, as a signed decimal string
DecimalNet(a, b, c) ==
  BigToString(BigSub(BigAdd(BigInt(a).val, BigInt(b).val), BigInt(c).val))

\* the three fee inputs of the record of the running object-model call
GasInputs == input.fetch.txBlock.gasUsed

GasInputsAre(c, s, r) ==
  GasInputs.computationCost = c /\ GasInputs.storageCost = s /\ GasInputs.storageRebate = r

\* C5: in the fee breakdown of the object-model handler the reported
\* components are the parsed values of the three inputs and the total is
\* computationCost + storageCost - storageRebate in signed arithmetic,
\* without clamping: (100, 50, 30) gives 120 and (10, 0, 50) gives -40.
C5_TotalIsSignedNetOfComponents ==
  Explained("SuiGET") =>
    /\ output.gasUsed.computationCost = hexToDecimalString(GasInputs.computationCost)
    /\ output.gasUsed.storageCost = hexToDecimalString(GasInputs.storageCost)
    /\ output.gasUsed.storageRebate = hexToDecimalString(GasInputs.storageRebate)
    /\ output.gasUsed.total = DecimalNet(output.gasUsed.computationCost,
                                         output.gasUsed.storageCost,
                                         output.gasUsed.storageRebate)
    /\ GasInputsAre("100", "50", "30") => output.gasUsed.total = "120"
    /\ GasInputsAre("10", "0", "50") => output.gasUsed.total = "-40"

\* the rebate exceeds the costs and the total is reported below zero
C5_Witness ==
  /\ Explained("SuiGET")
  /\ GasInputsAre("10", "0", "50")
  /\ output.gasUsed.total = "-40"


\* a fee input that is missing or is no integer literal
MissingOrMalformed(v) == Falsy(v) \/ ~BigIntSyntaxOk(v)

\* the running call of the gas-price handler had a well-formed id and the
\* ledger returned the transaction
EvmFetchedTransaction ==
  /\ op = "EvmGET"
  /\ ~Falsy(EvmTxHash(input.rawTxHash))
  /\ input.fetch.outcome = "results" /\ ~input.fetch.txIsNull

\* the running call of the object-model handler had a well-formed id and the
\* ledger returned a record whose events can be read
SuiFetchedRecord ==
  /\ op = "SuiGET"
  /\ ~Falsy(SuiTxDigest(input.rawTxHash))
  /\ input.fetch.outcome = "record"
  /\ input.fetch.txBlock.events.kind # "notIterable"

\* C6: in both fee resolvers a missing or malformed fee input (gasUsed,
\* effectiveGasPrice, maxFeePerGas, gasPrice, l1Fee, l1GasPrice, l1GasUsed;
\* computationCost, storageCost, storageRebate) never makes the GET handler
\* fail: a normal explanation is returned and the field contributes zero.
C6_FeeInputsNeverFailTheHandler ==
  /\ EvmFetchedTransaction =>
       /\ output.status = 200
       /\ MissingOrMalformed(ReceiptField(input.fetch.receipt, "gasUsed"))
            => output.fees.gasUsed = "0" /\ output.fees.l2FeeWei = "0"
  /\ SuiFetchedRecord =>
       /\ output.status = 200
       /\ MissingOrMalformed(GasInputs.computationCost) => output.gasUsed.computationCost = "0"
       /\ MissingOrMalformed(GasInputs.storageCost) => output.gasUsed.storageCost = "0"
       /\ MissingOrMalformed(GasInputs.storageRebate) => output.gasUsed.storageRebate = "0"


\* a well-formed base-10 literal: one or more decimal digits
IsDecimalLiteral(s) == s # "" /\ AllChars(s, IsDecDigit)

\* a well-formed base-16 literal: 0x and one or more hexadecimal digits
IsHexLiteral(s) ==
  Len(s) > 2 /\ SubSeq(s, 1, 2) = "0x" /\ AllChars(SubSeq(s, 3, Len(s)), IsHexDigit)

\* the value of a short run of hexadecimal digits
RECURSIVE HexValueFrom(_, _)
HexValueFrom(digits, value) ==
  IF digits = "" THEN value
  ELSE HexValueFrom(Tail(digits), value * 16 + DigitVal(Head(digits)))

HexValue(s) == HexValueFrom(SubSeq(s, 3, Len(s)), 0)

\* the run of digits after an optional sign and a radix prefix, and the
\* digits that radix allows
IsPrefixedLiteral(s, prefix, Allowed(_)) ==
  Len(s) > 2 /\ ToLowerCase(SubSeq(s, 1, 2)) = prefix /\ AllChars(SubSeq(s, 3, Len(s)), Allowed)

IsBinaryDigit(c) == c \in {"0", "1"}
IsOctalDigit(c) == IsDecDigit(c) /\ c \notin {"8", "9"}

\* a string that denotes an integer: blanks around a signed decimal literal
\* or around a literal with a 0x, 0o or 0b prefix
IsNumeric(s) ==
  LET t == Trim(s)
  IN \/ IsDecimalLiteral(t)
     \/ Len(t) > 1 /\ Head(t) \in {"+", "-"} /\ IsDecimalLiteral(Tail(t))
     \/ IsPrefixedLiteral(t, "0x", IsHexDigit)
     \/ IsPrefixedLiteral(t, "0o", IsOctalDigit)
     \/ IsPrefixedLiteral(t, "0b", IsBinaryDigit)

\* a base-16 literal of at most 7 digits, whose value is a machine integer
IsShortHexLiteral(s) == IsHexLiteral(s) /\ Len(s) <= 9

\* C7: hexToDecimalString returns the base-10 rendering of the value of
\* every well-formed base-10 literal and every well-formed 0x-prefixed
\* base-16 literal, and returns "0", without throwing, for null, undefined,
\* the empty string and every non-numeric string.
C7_ParsesLiteralsAndZeroOtherwise ==
  op = "hexToDecimalString" =>
    LET hex == input.hex
        out == output.returned
    IN IF Nullish(hex) \/ hex = "" THEN out = "0"
       ELSE /\ IsDecimalLiteral(hex) => out = StripLeadingZeros(hex)
            /\ IsShortHexLiteral(hex) => out = ToString(HexValue(hex))
            /\ ~IsNumeric(hex) => out = "0"

\* a base-16 literal rendered in base 10
C7_Witness ==
  /\ op = "hexToDecimalString"
  /\ input.hex = "0x16e360"
  /\ output.returned = "1500000"


\* s without its separators
RECURSIVE WithoutCommas(_)
WithoutCommas(s) ==
  IF s = "" THEN ""
  ELSE (IF Head(s) = "," THEN "" ELSE Head(s)) \o WithoutCommas(Tail(s))

\* the amount a formatter call returned and the decimal count it used: the
\* server formatters return the amount beside the symbol and take the count
\* from their table, formatMistToSui returns it before the unit, with
\* separators in the whole part, and counts 9 decimals
FormattedBy(formatter) ==
  IF formatter = "formatMistToSui"
  THEN [amount |-> WithoutCommas(SubSeq(output.returned, 1, Len(output.returned) - 4)),
        decimals |-> 9]
  ELSE IF formatter = "formatCoinAmount"
  THEN [amount |-> output.amount,
        decimals |-> IF ~Falsy(input.coinType) /\ KNOWN_COINS(input.coinType).known
                     THEN KNOWN_COINS(input.coinType).decimals ELSE 9]
  ELSE [amount |-> output.amount,
        decimals |-> IF input.tokenContract # UNDEFINED
                        /\ KNOWN_TOKENS(ToLowerCase(input.tokenContract)).known
                     THEN KNOWN_TOKENS(ToLowerCase(input.tokenContract)).decimals ELSE 18]

\* whole * 10^d + fraction, the fraction padded with zeros on the right to
\* d digits: the digits of the whole part followed by those of the fraction
ReadBack(whole, fraction, d) ==
  StripLeadingZeros(whole \o fraction \o Repeat("0", d - Len(fraction)))

RoundTrips(r, amount, d) ==
  LET parts == Split(amount, ".")
      whole == parts[1]
      fraction == IF Len(parts) = 2 THEN parts[2] ELSE ""
  IN /\ Len(parts) \in {1, 2}
     /\ IsDecimalLiteral(whole) /\ whole = StripLeadingZeros(whole)
     /\ Len(parts) = 2 => /\ IsDecimalLiteral(fraction) /\ Len(fraction) <= d
                          /\ Last(fraction) # "0"
     /\ ReadBack(whole, fraction, d) = StripLeadingZeros(r)
     /\ StripLeadingZeros(r) = "0" => amount = "0"

\* C8: for every non-negative integer r and decimal count d the decimal
\* string of formatTokenAmount, formatCoinAmount and formatMistToSui round
\* trips: whole * 10^d + fraction (right-padded with zeros to d digits) is
\* r; the fraction has no trailing zeros and is left out when it is zero,
\* so r = 0 is rendered "0".
C8_FormattedAmountRoundTrips ==
  \A formatter \in {"formatTokenAmount", "formatCoinAmount", "formatMistToSui"} :
    op = formatter /\ ~Nullish(input.rawAmount) /\ IsDecimalLiteral(input.rawAmount)
      => RoundTrips(input.rawAmount, FormattedBy(formatter).amount,
                    FormattedBy(formatter).decimals)

\* an amount of a 6-decimal token whose fraction needs its leading zeros
C8_Witness ==
  /\ op = "formatTokenAmount"
  /\ input.tokenContract = USDC_TOKEN
  /\ input.rawAmount = "1000005"
  /\ output.amount = "1.000005"


\* a raw amount that is malformed: a non-empty string that is no integer
\* literal
IsMalformedAmount(rawAmount) ==
  ~Nullish(rawAmount) /\ rawAmount # "" /\ ~IsNumeric(rawAmount)

\* C9: when the raw amount is malformed, amount formatting does not throw
\* and returns the raw input string unmodified as the amount, in the server
\* formatters (formatCoinAmount, formatTokenAmount) and in the presentation
\* formatters (formatMistToSui, formatWeiToEth, client formatCoinAmount).
C9_MalformedAmountIsReturnedUnmodified ==
  /\ \A formatter \in {"formatCoinAmount", "formatTokenAmount", "clientFormatCoinAmount"} :
       op = formatter /\ IsMalformedAmount(input.rawAmount)
         => output.amount = input.rawAmount
  /\ op = "formatMistToSui" /\ IsMalformedAmount(input.rawAmount)
       => output.returned = input.rawAmount \o " mist"
  /\ op = "formatWeiToEth" /\ IsMalformedAmount(input.rawAmount)
       => output.returned = input.rawAmount \o " wei"


\* the ledger reported that it has no record of the transaction: the fetch
\* returned nothing, or was rejected because there is no such transaction
SuiLedgerHasNoRecord ==
  \/ input.fetch.outcome = "null"
  \/ input.fetch.outcome = "rejected" /\ input.fetch.cause = "no such transaction"

EvmLedgerHasNoRecord == input.fetch.outcome = "results" /\ input.fetch.txIsNull

\* C10: after a well-formed transaction id a GET handler returns the
\* not-found result (404) only when the ledger reports no record of the
\* transaction; a failure of the fetch itself or of decoding is never
\* reported as not found.
C10_NotFoundOnlyWhenLedgerHasNoRecord ==
  /\ op = "SuiGET" /\ ~Falsy(SuiTxDigest(input.rawTxHash)) /\ output.status = 404
       => SuiLedgerHasNoRecord
  /\ op = "EvmGET" /\ ~Falsy(EvmTxHash(input.rawTxHash)) /\ output.status = 404
       => EvmLedgerHasNoRecord

\* the amount is not the literal of a negative number
NotNegative(amount) == ~(BigInt(amount).ok /\ BigInt(amount).val.neg)

CarriesTokenId(transfer) ==
  "tokenId" \in DOMAIN transfer /\ ~Nullish(transfer.tokenId)

\* C11: every transfer the decoders produce (parseCoinTransfers on the
\* events of a record, parseTokenTransfers on the logs of a receipt) has an
\* amount that is not negative; a coin transfer carries no tokenId, and a
\* token transfer carries one exactly when it is an ERC721 or an ERC1155
\* (single or batch) transfer.
C11_AmountsNonNegativeTokenIdIffNonFungible ==
  /\ Explained("SuiGET") =>
       \A i \in 1..Len(output.coins) :
         NotNegative(output.coins[i].amount) /\ ~CarriesTokenId(output.coins[i])
  /\ Explained("EvmGET") =>
       \A i \in 1..Len(output.tokens) :
         /\ NotNegative(output.tokens[i].valueRaw)
         /\ CarriesTokenId(output.tokens[i])
              <=> output.tokens[i].transferType \in {"ERC721", "ERC1155"}

\* the same without the sign of the amounts
C11_TokenIdIffNonFungible ==
  /\ Explained("SuiGET") =>
       \A i \in 1..Len(output.coins) : ~CarriesTokenId(output.coins[i])
  /\ Explained("EvmGET") =>
       \A i \in 1..Len(output.tokens) :
         CarriesTokenId(output.tokens[i])
           <=> output.tokens[i].transferType \in {"ERC721", "ERC1155"}

\* two identifiers that differ only in letter case
SameButCase(a, b) == ~Nullish(a) /\ ~Nullish(b) /\ ToLowerCase(a) = ToLowerCase(b)

TokenContractsTried ==
  {USDC_TOKEN, DAI_TOKEN, OTHER_TOKEN, "0xFF970A61A04b1ca14834a43f5de4533ebddb5cc8"}

\* the token lookups: formatTokenAmount resolves identifiers that differ
\* only in letter case to the same symbol and decimals, and the sentence of
\* a contract call names the target by the same display name when the
\* address is in lower case
C12_TokenLookupsIgnoreLetterCase ==
  /\ op = "formatTokenAmount" =>
       \A other \in TokenContractsTried :
         SameButCase(other, input.tokenContract)
           => formatTokenAmount(other, input.rawAmount) = output
  /\ Explained("EvmGET") =>
       \A i \in 1..Len(output.actions) :
         ~Nullish(output.actions[i].to) =>
           explainEvm([output.actions[i] EXCEPT !.to = ToLowerCase(@)])
             = output.actionExplanations[i]

\* C12: the lookups of symbol and decimals by asset identifier and of the
\* display name by contract address ignore letter case in both ledger
\* variants: formatCoinAmount and formatTokenAmount give the same result
\* for two identifiers that differ only in letter case, and the sentence
\* of a contract call the same display name.
C12_LookupsIgnoreLetterCase ==
  /\ C12_TokenLookupsIgnoreLetterCase
  /\ op = "formatCoinAmount" =>
       \A other \in CoinTypes :
         SameButCase(other, input.coinType)
           => formatCoinAmount(other, input.rawAmount) = output

\* the positions of the actions of a type, in order
Positions(actions, type) ==
  SelectSeq([i \in 1..Len(actions) |-> i], LAMBDA i : actions[i].type = type)

\* the events of the fetched record that parseCoinTransfers decodes, and
\* the object changes that classifyActions takes for non-fungible transfers
DecodedEvents ==
  SelectSeq(input.fetch.txBlock.events.items,
            LAMBDA event : parseCoinTransfersLoop(<<event>>) # <<>>)
DecodedNftChanges ==
  SelectSeq(input.fetch.txBlock.objectChanges,
            LAMBDA change : NftTransfers(<<change>>) # <<>>)

SentenceOf(type, k) == output.actionExplanations[Positions(output.actions, type)[k]]

\* C13: when the source data of a transfer has no sender or no recipient,
\* the sentence of its action names that party "unknown": the sentence of a
\* coin transfer whose event has no sender starts with "unknown
\* transferred", and the sentence of a non-fungible transfer whose object
\* change has no sender or no recipient reads "from unknown" or "to unknown".
C13_AbsentPartyIsNamedUnknown ==
  Explained("SuiGET") =>
    /\ \A k \in 1..Len(DecodedEvents) :
         Falsy(DecodedEvents[k].parsedJson.sender)
           => Slice(SentenceOf("COIN_TRANSFER", k), 0, 20) = "unknown transferred "
    /\ \A k \in 1..Len(DecodedNftChanges) :
         /\ Falsy(DecodedNftChanges[k].sender)
              => Includes(SentenceOf("NFT_TRANSFER", k), " from unknown to ")
         /\ Falsy(DecodedNftChanges[k].recipient)
              => SliceLast(SentenceOf("NFT_TRANSFER", k), 11) = " to unknown"

\* raw / 10^d written out: the digits of raw with the point d places from
\* the right, without the trailing zeros of the fraction and without the
\* point when nothing follows it
ScaledDecimal(raw, d) ==
  LET digits == StripLeadingZeros(raw)
      padded == IF Len(digits) <= d THEN Repeat("0", d + 1 - Len(digits)) \o digits
                ELSE digits
      whole == SubSeq(padded, 1, Len(padded) - d)
      frac == DropWhileEnd(SubSeq(padded, Len(padded) - d + 1, Len(padded)), IsZeroChar)
  IN IF frac = "" THEN whole ELSE whole \o "." \o frac

\* C14: the sentence of a fungible transfer action (its amount a
\* non-negative integer in minor units) shows the amount as raw / 10^decimals
\* followed by the symbol, with the decimals and the symbol the table lists
\* for the asset, and with the default symbol ("coins" / "tokens") and the
\* default decimals (9 / 18) when the table does not list it.
C14_FungibleAmountUsesListedOrDefaultUnits ==
  /\ Explained("SuiGET") =>
       \A i \in 1..Len(output.actions) :
         output.actions[i].type = "COIN_TRANSFER"
           /\ IsDecimalLiteral(output.actions[i].amount) =>
           LET meta == KNOWN_COINS(output.actions[i].coinType)
           IN Includes(output.actionExplanations[i],
                " transferred "
                  \o ScaledDecimal(output.actions[i].amount,
                                   IF meta.known THEN meta.decimals ELSE 9)
                  \o " " \o (IF meta.known THEN meta.symbol ELSE "coins") \o " to ")
  /\ Explained("EvmGET") =>
       \A i \in 1..Len(output.actions) :
         output.actions[i].type = "ERC20_TRANSFER"
           /\ IsDecimalLiteral(output.actions[i].amount) =>
           LET meta == KNOWN_TOKENS(ToLowerCase(output.actions[i].tokenContract))
           IN Includes(output.actionExplanations[i],
                " sent "
                  \o ScaledDecimal(output.actions[i].amount,
                                   IF meta.known THEN meta.decimals ELSE 18)
                  \o " " \o (IF meta.known THEN meta.symbol ELSE "tokens") \o " to ")

\* a receipt whose first log is a transfer of 1500000 units of the listed
\* 6-decimal token and whose second is a transfer of an unlisted token
C14_Witness ==
  /\ Explained("EvmGET")
  /\ Len(output.actions) >= 2
  /\ output.actions[1].type = "ERC20_TRANSFER"
  /\ output.actions[1].tokenContract = USDC_TOKEN
  /\ output.actions[1].amount = "1500000"
  /\ Includes(output.actionExplanations[1], " sent 1.5 USDC to ")
  /\ output.actions[2].type = "ERC20_TRANSFER"
  /\ ~KNOWN_TOKENS(ToLowerCase(output.actions[2].tokenContract)).known
  /\ Includes(output.actionExplanations[2], " sent 1.5 tokens to ")

KnownSuiTypes ==
  {"COIN_TRANSFER", "NFT_TRANSFER", "OBJECT_CREATED", "MOVE_CALL", "CONTRACT_CALL",
   "STAKING", "SWAP"}
KnownEvmTypes == {"ERC20_TRANSFER", "ERC721_TRANSFER", "ERC1155_TRANSFER", "CONTRACT_CALL"}

\* C15: explain returns a string for every action, whatever its type,
\* whichever optional fields are absent and whatever its amount string, and
\* for an action whose type is not one of the known types of its variant
\* that string is exactly "Unrecognized action".
C15_ExplainIsTotal ==
  /\ op = "explainSui" =>
       /\ output.returned \in STRING
       /\ input.action.type \notin KnownSuiTypes => output.returned = "Unrecognized action"
  /\ op = "explainEvm" =>
       /\ output.returned \in STRING
       /\ input.action.type \notin KnownEvmTypes => output.returned = "Unrecognized action"

\* an action of a type no variant knows, with every optional field absent
C15_Witness ==
  /\ op = "explainEvm"
  /\ input.action.type = "TELEPORT"
  /\ Nullish(input.action.from) /\ Nullish(input.action.to)
  /\ Nullish(input.action.tokenContract) /\ Nullish(input.action.tokenId)
  /\ Nullish(input.action.amount)
  /\ output.returned = "Unrecognized action"

\* an event of a transfer type, and one that also names amount and recipient
IsTransferEvent(event) == ~Nullish(event.type) /\ Includes(event.type, "Transfer")
HasAmountAndRecipient(event) ==
  ~Falsy(event.parsedJson.amount) /\ ~Falsy(event.parsedJson.recipient)

FetchedEvents == input.fetch.txBlock.events.items

\* C16 as stated: parseCoinTransfers emits one transfer for every event of
\* a transfer type, whichever of its fields are missing.
C16_OneTransferPerTransferEvent ==
  Explained("SuiGET") =>
    Len(output.coins) = Len(SelectSeq(FetchedEvents, IsTransferEvent))

\* C16: parseCoinTransfers emits, in order, one transfer for every event of
\* a transfer type that names an amount and a recipient, with the native
\* coin type for a missing coin type and "unknown" for a missing sender; an
\* event of a transfer type without amount or without recipient is
\* discarded.
C16_OneTransferPerCompleteTransferEvent ==
  Explained("SuiGET") =>
    LET complete == SelectSeq(FetchedEvents,
                              LAMBDA event : IsTransferEvent(event)
                                               /\ HasAmountAndRecipient(event))
    IN /\ Len(output.coins) = Len(complete)
       /\ \A k \in 1..Len(complete) :
            output.coins[k] =
              [coinType |-> IF Falsy(complete[k].parsedJson.coin_type) THEN "0x2::sui::SUI"
                            ELSE complete[k].parsedJson.coin_type,
               from |-> IF Falsy(complete[k].parsedJson.sender) THEN "unknown"
                        ELSE complete[k].parsedJson.sender,
               to |-> complete[k].parsedJson.recipient,
               amount |-> complete[k].parsedJson.amount]

\* a record with a transfer event that names neither coin type nor sender,
\* decoded with the defaults, and a transfer event without recipient,
\* discarded
C16_Witness ==
  /\ Explained("SuiGET")
  /\ Len(FetchedEvents) = 2
  /\ \A k \in 1..2 : IsTransferEvent(FetchedEvents[k])
  /\ Falsy(FetchedEvents[1].parsedJson.coin_type) /\ Falsy(FetchedEvents[1].parsedJson.sender)
  /\ Falsy(FetchedEvents[2].parsedJson.recipient)
  /\ output.coins = << [coinType |-> "0x2::sui::SUI", from |-> "unknown",
                        to |-> ADDR_B, amount |-> "1500000"] >>

\* the product of two decimal strings, as a decimal string
DecimalProduct(a, b) == BigToString(BigMul(BigInt(a).val, BigInt(b).val))

FetchedTx == input.fetch.tx
FetchedReceipt == input.fetch.receipt

\* the price by priority: the first of the receipt's effectiveGasPrice, the
\* transaction's maxFeePerGas and its gasPrice that is present (neither
\* undefined nor null), zero when none is
PriceByPriority ==
  IF ~Nullish(ReceiptField(FetchedReceipt, "effectiveGasPrice"))
  THEN ReceiptField(FetchedReceipt, "effectiveGasPrice")
  ELSE IF ~Nullish(FetchedTx.maxFeePerGas) THEN FetchedTx.maxFeePerGas
  ELSE IF ~Nullish(FetchedTx.gasPrice) THEN FetchedTx.gasPrice
  ELSE "0"

NoSecondaryCost ==
  /\ Falsy(ReceiptField(FetchedReceipt, "l1Fee"))
  /\ Falsy(ReceiptField(FetchedReceipt, "l1GasPrice"))
  /\ Falsy(ReceiptField(FetchedReceipt, "l1GasUsed"))

\* C17: in the summary of the gas-price handler the effective gas price is
\* the receipt's effectiveGasPrice when present, else the transaction's
\* maxFeePerGas, else its gasPrice, else zero; the execution fee is gasUsed
\* times that price, and the total equals it when the receipt reports no
\* secondary cost.
C17_PriceByPriorityAndExecutionFee ==
  Explained("EvmGET") =>
    /\ output.fees.effectiveGasPriceWei = hexToDecimalString(PriceByPriority)
    /\ output.fees.l2FeeWei
         = DecimalProduct(output.fees.gasUsed, output.fees.effectiveGasPriceWei)
    /\ NoSecondaryCost => output.fees.totalFeeWei = output.fees.l2FeeWei

\* a receipt without effectiveGasPrice for a transaction with both a
\* maximum fee per gas and a legacy gas price: 21000 gas at the maximum fee
C17_Witness ==
  /\ Explained("EvmGET")
  /\ Nullish(ReceiptField(FetchedReceipt, "effectiveGasPrice"))
  /\ FetchedTx.maxFeePerGas = "0x2" /\ FetchedTx.gasPrice = "0x3"
  /\ NoSecondaryCost
  /\ output.fees.gasUsed = "21000"
  /\ output.fees.effectiveGasPriceWei = "2"
  /\ output.fees.l2FeeWei = "42000"
  /\ output.fees.totalFeeWei = "42000"

\* C18: in the summary of the gas-price handler the L1 fee is the l1Fee the
\* receipt reports whenever it reports one, whatever its value; otherwise
\* l1GasPrice times l1GasUsed when the receipt has both; otherwise zero.
C18_ReportedL1FeeFirst ==
  Explained("EvmGET") =>
    output.fees.l1FeeWei =
      IF ~Falsy(ReceiptField(FetchedReceipt, "l1Fee"))
      THEN hexToDecimalString(ReceiptField(FetchedReceipt, "l1Fee"))
      ELSE IF ~Falsy(ReceiptField(FetchedReceipt, "l1GasPrice"))
              /\ ~Falsy(ReceiptField(FetchedReceipt, "l1GasUsed"))
      THEN DecimalProduct(hexToDecimalString(ReceiptField(FetchedReceipt, "l1GasPrice")),
                          hexToDecimalString(ReceiptField(FetchedReceipt, "l1GasUsed")))
      ELSE "0"

\* the same for the receipts that report no l1Fee or one that is not zero
C18_ReportedNonZeroL1FeeFirst ==
  Explained("EvmGET") /\ ReceiptField(FetchedReceipt, "l1Fee") # "0x0"
    => C18_ReportedL1FeeFirst

TransferTypeOf(transferType) ==
  CASE transferType = "ERC20" -> "ERC20_TRANSFER"
    [] transferType = "ERC721" -> "ERC721_TRANSFER"
    [] transferType = "ERC1155" -> "ERC1155_TRANSFER"

\* the coin transfers onto the leading actions, one each and in order
CoinTransfersCarried ==
  /\ Len(output.actions) >= Len(output.coins)
  /\ \A i \in 1..Len(output.actions) :
       IF i <= Len(output.coins)
       THEN /\ output.actions[i].type = "COIN_TRANSFER"
            /\ output.actions[i].from = output.coins[i].from
            /\ output.actions[i].to = output.coins[i].to
            /\ output.actions[i].coinType = output.coins[i].coinType
            /\ output.actions[i].amount = output.coins[i].amount
       ELSE output.actions[i].type # "COIN_TRANSFER"

\* the token transfers onto the leading actions, one each and in order;
\* Amount(transfer) is the amount the action of the transfer has to carry
TokenTransfersCarried(Amount(_)) ==
  /\ Len(output.actions) >= Len(output.tokens)
  /\ \A i \in 1..Len(output.actions) :
       IF i <= Len(output.tokens)
       THEN /\ output.actions[i].type = TransferTypeOf(output.tokens[i].transferType)
            /\ output.actions[i].from = output.tokens[i].from
            /\ output.actions[i].to = output.tokens[i].to
            /\ output.actions[i].tokenContract = output.tokens[i].tokenContract
            /\ output.actions[i].tokenId = output.tokens[i].tokenId
            /\ output.actions[i].amount = Amount(output.tokens[i])
       ELSE output.actions[i].type
              \notin {"ERC20_TRANSFER", "ERC721_TRANSFER", "ERC1155_TRANSFER"}

CallInteractions == SelectSeq(output.actions, LAMBDA action : IsCallType(action.type))

HasTargetAndCallData ==
  FetchedTx.to # NULL /\ ~Falsy(FetchedTx.input) /\ FetchedTx.input # "0x"

\* the gas-price variant: one action of the call, from the sender to the
\* target, when the transaction has a target and call data, none otherwise
OneCallForTargetAndData ==
  IF HasTargetAndCallData
  THEN /\ Len(CallInteractions) = 1
       /\ CallInteractions[1].from = FetchedTx.from
       /\ CallInteractions[1].to = FetchedTx.to
       /\ output.actions[Len(output.actions)] = CallInteractions[1]
  ELSE CallInteractions = <<>>

\* C20 as stated: one call-interaction action, from the sender to the
\* target, when the transaction has a call target and call data, none when
\* it has no target or no call data; and in the object-model variant too no
\* transaction yields more than one call-interaction action.
C20_AtMostOneCallInteraction ==
  /\ Explained("EvmGET") => OneCallForTargetAndData
  /\ Explained("SuiGET") => Len(CallInteractions) <= 1

FetchedBlock == input.fetch.txBlock

\* C20: in the gas-price variant classifyActions appends exactly one
\* call-interaction action (from = sender, to = target) when the
\* transaction has a call target and call data, and none otherwise; in the
\* object-model variant it appends one MOVE_CALL action for every MoveCall
\* command of a programmable transaction, several for several commands, one
\* CONTRACT_CALL action (from = sender, no target) for a transaction of
\* another kind than "TransferObject", and none for a record without
\* transaction data.
C20_OneCallPerTargetOrPerMoveCall ==
  /\ Explained("EvmGET") => OneCallForTargetAndData
  /\ Explained("SuiGET") =>
       IF ~FetchedBlock.hasTransactionData THEN CallInteractions = <<>>
       ELSE IF FetchedBlock.kind.tag = "programmable"
       THEN /\ Len(CallInteractions)
                 = Len(SelectSeq(FetchedBlock.kind.commands, LAMBDA cmd : cmd.MoveCall))
            /\ \A k \in 1..Len(CallInteractions) : CallInteractions[k].type = "MOVE_CALL"
       ELSE IF FetchedBlock.kind.tag = "object"
               \/ (FetchedBlock.kind.tag = "string"
                     /\ FetchedBlock.kind.str \notin {"", "TransferObject"})
       THEN /\ Len(CallInteractions) = 1
            /\ CallInteractions[1].type = "CONTRACT_CALL"
            /\ CallInteractions[1].from = FetchedBlock.sender
            /\ CallInteractions[1].to = NULL
       ELSE CallInteractions = <<>>

\* a programmable transaction with two MoveCall commands among three,
\* explained with two call-interaction actions
C20_Witness ==
  /\ Explained("SuiGET")
  /\ FetchedBlock.kind.tag = "programmable"
  /\ Len(FetchedBlock.kind.commands) = 3
  /\ Len(CallInteractions) = 2

\* the number of object changes of kind created in the fetched record
CreatedChanges ==
  Len(SelectSeq(FetchedBlock.objectChanges, LAMBDA change : change.type = "created"))

\* "n new object was created" or "n new objects were created"
CreatedPhrase(n) ==
  ToString(n) \o (IF n = 1 THEN " new object was created" ELSE " new objects were created")

\* C21: with n > 0 object changes of kind created, classifyActions appends
\* exactly one creation-summary action whose amount is the decimal string
\* of n, and its description and its explanation sentence are singular for
\* n = 1 and plural for n > 1; with n = 0 there is no creation-summary
\* action.
C21_OneCreationSummaryPluralizedByCount ==
  Explained("SuiGET") =>
    LET at == Positions(output.actions, "OBJECT_CREATED")
    IN IF CreatedChanges = 0 THEN at = <<>>
       ELSE /\ Len(at) = 1
            /\ output.actions[at[1]].amount = ToString(CreatedChanges)
            /\ output.actions[at[1]].description = CreatedPhrase(CreatedChanges)
            /\ Slice(output.actionExplanations[at[1]], 0,
                     Len(CreatedPhrase(CreatedChanges)) + 4)
                 = CreatedPhrase(CreatedChanges) \o " by "

\* a record with two created objects among its changes, summarised in the
\* plural
C21_Witness ==
  /\ Explained("SuiGET")
  /\ CreatedChanges = 2
  /\ \E i \in 1..Len(output.actions) :
       /\ output.actions[i].type = "OBJECT_CREATED"
       /\ output.actions[i].amount = "2"
       /\ Slice(output.actionExplanations[i], 0, 30) = "2 new objects were created by "


\* the logs of the fetched receipt
FetchedLogs == FetchedReceipt.logs

\* a log with the given signature as its first topic and exactly 4 topics
IsLogOf(log, signature) ==
  /\ Len(log.topics) = 4
  /\ ToLowerCase(log.topics[1]) = signature

\* the payload holds at least two 32-byte words after its 0x prefix
HasTwoWords(log) == ~Falsy(log.data) /\ Len(log.data) >= 130

\* the n-th 32-byte word of a payload as an unsigned big-endian number, in
\* decimal
WordOfPayload(data, n) ==
  BigToString(Big(FALSE, MagOfDigits(Slice(data, 2 + 64 * (n - 1), 2 + 64 * n), 16)))

\* the address in the low 20 bytes of a topic
AddressOfTopic(topic) == "0x" \o SliceFrom(topic, 26)

\* token i is the decoding of log i as a multi-token transfer: id in the
\* first word, amount in the second, parties in the third and fourth topic
DecodesSingle(logs, i) ==
  /\ output.tokens[i].transferType = "ERC1155"
  /\ output.tokens[i].tokenContract = logs[i].address
  /\ output.tokens[i].tokenId = WordOfPayload(logs[i].data, 1)
  /\ hexToDecimalString(output.tokens[i].valueRaw) = WordOfPayload(logs[i].data, 2)
  /\ output.tokens[i].from = AddressOfTopic(logs[i].topics[3])
  /\ output.tokens[i].to = AddressOfTopic(logs[i].topics[4])

\* C22 as stated: every log with the single multi-token transfer signature
\* and exactly 4 topics decodes to one multi-token transfer whose tokenId
\* is the first 32-byte big-endian word of the payload and whose amount is
\* the second word, with from and to taken from the third and fourth
\* topics.
C22_EverySingleLogDecodes ==
  Explained("EvmGET") =>
    ((\A i \in 1..Len(FetchedLogs) : IsLogOf(FetchedLogs[i], ERC1155_TRANSFER_SINGLE_TOPIC))
       => /\ Len(output.tokens) = Len(FetchedLogs)
          /\ \A i \in 1..Len(FetchedLogs) : DecodesSingle(FetchedLogs, i))

\* C22, amended: every log with the single multi-token transfer signature,
\* exactly 4 topics and a payload of at least two 32-byte words decodes to
\* one multi-token transfer whose tokenId is the first word of the payload
\* and whose amount is the second word, with from and to taken from the
\* third and fourth topics; with a shorter payload the log yields no
\* transfer.
C22_SingleLogWithTwoWordsDecodes ==
  Explained("EvmGET") =>
    ((\A i \in 1..Len(FetchedLogs) : IsLogOf(FetchedLogs[i], ERC1155_TRANSFER_SINGLE_TOPIC))
       => LET whole == SelectSeq(FetchedLogs, HasTwoWords)
          IN /\ Len(output.tokens) = Len(whole)
             /\ \A i \in 1..Len(whole) : DecodesSingle(whole, i))

\* a single multi-token transfer of 3 units of token 7, decoded
C22_Witness ==
  /\ Explained("EvmGET")
  /\ Len(FetchedLogs) = 1
  /\ IsLogOf(FetchedLogs[1], ERC1155_TRANSFER_SINGLE_TOPIC)
  /\ HasTwoWords(FetchedLogs[1])
  /\ Len(output.tokens) = 1
  /\ output.tokens[1].tokenId = "7"
  /\ hexToDecimalString(output.tokens[1].valueRaw) = "3"
  /\ output.tokens[1].from = "0xa11ce00000000000000000000000000000000a11"
  /\ output.tokens[1].to = "0xb0b0000000000000000000000000000000000b0b"


\* C23: every log with the batch multi-token signature and exactly 4 topics
\* yields exactly one transfer with tokenId "batch" and an amount that is
\* not decoded from the payload (the placeholder 0x1 whatever the payload
\* holds), and the action derived from it carries the amount "multiple"; a
\* transfer that is not a batch never yields an action with the amount
\* "multiple".
C23_BatchIsOneTransferAmountMultiple ==
  Explained("EvmGET") =>
    /\ (\A i \in 1..Len(FetchedLogs) : IsLogOf(FetchedLogs[i], ERC1155_TRANSFER_BATCH_TOPIC))
         => /\ Len(output.tokens) = Len(FetchedLogs)
            /\ \A i \in 1..Len(FetchedLogs) :
                 /\ output.tokens[i].tokenId = "batch"
                 /\ output.tokens[i].transferType = "ERC1155"
                 /\ output.tokens[i].valueRaw = "0x1"
                 /\ output.tokens[i].from = AddressOfTopic(FetchedLogs[i].topics[3])
                 /\ output.tokens[i].to = AddressOfTopic(FetchedLogs[i].topics[4])
    /\ Len(output.actions) >= Len(output.tokens)
    /\ \A i \in 1..Len(output.actions) :
         output.actions[i].amount = "multiple"
           <=> i <= Len(output.tokens) /\ output.tokens[i].tokenId = "batch"

\* a receipt with a batch log whose payload holds two words and a single
\* multi-token log: the first action has the amount "multiple", the second
\* its decoded amount
C23_Witness ==
  /\ Explained("EvmGET")
  /\ Len(FetchedLogs) = 2
  /\ IsLogOf(FetchedLogs[1], ERC1155_TRANSFER_BATCH_TOPIC)
  /\ HasTwoWords(FetchedLogs[1])
  /\ IsLogOf(FetchedLogs[2], ERC1155_TRANSFER_SINGLE_TOPIC)
  /\ Len(output.tokens) = 2
  /\ output.tokens[1].tokenId = "batch"
  /\ output.actions[1].amount = "multiple"
  /\ output.actions[2].amount = "3"


\* the kind a log is decoded to by its signature and number of topics, or
\* UNDEFINED for a log that is not recognized
KindOfLog(log) ==
  IF log.topics = <<>> THEN UNDEFINED
  ELSE IF ToLowerCase(log.topics[1]) = ERC20_TRANSFER_TOPIC /\ Len(log.topics) = 3 THEN "ERC20"
  ELSE IF ToLowerCase(log.topics[1]) = ERC721_TRANSFER_TOPIC /\ Len(log.topics) = 4 THEN "ERC721"
  ELSE IF IsLogOf(log, ERC1155_TRANSFER_SINGLE_TOPIC) /\ HasTwoWords(log) THEN "ERC1155"
  ELSE IF IsLogOf(log, ERC1155_TRANSFER_BATCH_TOPIC) THEN "ERC1155"
  ELSE UNDEFINED

\* the sender a recognized log names: the second topic of a Transfer, the
\* third of a multi-token transfer
SenderOfLog(log) ==
  AddressOfTopic(log.topics[IF KindOfLog(log) = "ERC1155" THEN 3 ELSE 2])

\* C24: parseTokenTransfers produces at most one transfer per log, in log
\* order, and none for a log whose signature is not recognized or whose
\* topic count does not match (an empty topic list included); such a log
\* never stops the decoding of the logs that follow it.
C24_OneTransferPerRecognizedLogInOrder ==
  Explained("EvmGET") =>
    LET recognized == SelectSeq(FetchedLogs, LAMBDA log : KindOfLog(log) # UNDEFINED)
    IN /\ Len(output.tokens) = Len(recognized)
       /\ \A i \in 1..Len(recognized) :
            /\ output.tokens[i].transferType = KindOfLog(recognized[i])
            /\ output.tokens[i].tokenContract = recognized[i].address
            /\ output.tokens[i].from = SenderOfLog(recognized[i])

\* a receipt whose first log has no topics and whose second log is a
\* Transfer with 3 topics: one transfer, that of the second log
C24_Witness ==
  /\ Explained("EvmGET")
  /\ Len(FetchedLogs) = 2
  /\ FetchedLogs[1].topics = <<>>
  /\ KindOfLog(FetchedLogs[2]) = "ERC20"
  /\ Len(output.tokens) = 1
  /\ output.tokens[1].transferType = "ERC20"
  /\ output.tokens[1].tokenContract = FetchedLogs[2].address


\* the state after the flow section was built from a response
FlowBuilt == op = "TransactionFlow"

\* the (from, to, type) triple of an action or of a row
TripleOf(r) == <<r.from, r.to, r.type>>

\* the coin and NFT transfer actions that have both from and to
FlowTransfers(actions) ==
  SelectSeq(actions, LAMBDA action :
    /\ action.type \in {"COIN_TRANSFER", "NFT_TRANSFER"}
    /\ action.from \notin {UNDEFINED, NULL, ""}
    /\ action.to \notin {UNDEFINED, NULL, ""})

\* the position at which a triple occurs first among the transfers
FirstAt(transfers, triple) ==
  CHOOSE i \in 1..Len(transfers) :
    /\ TripleOf(transfers[i]) = triple
    /\ \A j \in 1..(i - 1) : TripleOf(transfers[j]) # triple

\* C25: the flow list built by TransactionFlow contains exactly one row for
\* each distinct (from, to, type) triple occurring among the coin and NFT
\* transfer actions that have both from and to, in order of first
\* occurrence, and never two rows with the same triple; building it leaves
\* the action list unchanged.
C25_OneFlowRowPerTripleInFirstOccurrenceOrder ==
  FlowBuilt =>
    LET transfers == FlowTransfers(input.data.actions)
        flows == output.flows
    IN /\ {TripleOf(flows[k]) : k \in 1..Len(flows)}
            = {TripleOf(transfers[i]) : i \in 1..Len(transfers)}
       /\ \A k, l \in 1..Len(flows) :
            k # l => TripleOf(flows[k]) # TripleOf(flows[l])
       /\ \A k, l \in 1..Len(flows) :
            k < l => FirstAt(transfers, TripleOf(flows[k]))
                       < FirstAt(transfers, TripleOf(flows[l]))
       /\ output.data.actions = input.data.actions

\* three transfers, the first two with the same triple and different
\* amounts, the third with another triple: two rows, the second for the
\* third transfer
C25_Witness ==
  /\ FlowBuilt
  /\ Len(FlowTransfers(input.data.actions)) = 3
  /\ LET transfers == FlowTransfers(input.data.actions)
     IN /\ TripleOf(transfers[1]) = TripleOf(transfers[2])
        /\ transfers[1].amount # transfers[2].amount
        /\ TripleOf(transfers[3]) # TripleOf(transfers[1])
        /\ Len(output.flows) = 2
        /\ TripleOf(output.flows[2]) = TripleOf(transfers[3])


\* the amount string a formatter call produced, without its unit
AmountShown ==
  IF op \in {"formatMistToSui", "formatWeiToEth"}
  THEN SubSeq(output.returned, 1, Len(output.returned) - 4)
  ELSE output.amount

\* digits in groups divided by separators: 1 to 3 digits in the first group
\* and exactly 3 in every other one
IsGrouped(whole) ==
  LET groups == Split(whole, ",")
  IN /\ Len(groups[1]) \in 1..3
     /\ \A g \in 1..Len(groups) :
          /\ IsDecimalLiteral(groups[g])
          /\ g > 1 => Len(groups[g]) = 3

\* the whole part is grouped and the fractional part has no separator
GroupedAmount(amount) ==
  LET parts == Split(amount, ".")
  IN /\ Len(parts) \in {1, 2}
     /\ IsGrouped(parts[1])
     /\ Len(parts) = 2 => IsDecimalLiteral(parts[2])

\* a formatter was called with a non-negative integer amount
FormattedInteger(formatters) ==
  /\ op \in formatters
  /\ ~Nullish(input.rawAmount)
  /\ IsDecimalLiteral(input.rawAmount)

\* C26: the whole part of every formatted amount has a separator inserted
\* every 3 digits counted from the right and the fractional part has none,
\* in the amounts of the explanation sentences (server formatCoinAmount and
\* formatTokenAmount) as well as in those of the presentation formatters
\* (formatNumber in the client formatCoinAmount, formatMistToSui,
\* formatWeiToEth).
C26_WholePartGroupedEverywhere ==
  FormattedInteger({"formatCoinAmount", "formatTokenAmount", "clientFormatCoinAmount",
                    "formatMistToSui", "formatWeiToEth"})
    => GroupedAmount(AmountShown)

\* the part of C26 that holds: the presentation formatters group the whole
\* part and leave the fractional part alone
C26_PresentationWholePartGrouped ==
  FormattedInteger({"clientFormatCoinAmount", "formatMistToSui", "formatWeiToEth"})
    => GroupedAmount(AmountShown)

\* 1234567.000000005 SUI, grouped by the presentation formatter
C26_PresentationWitness ==
  /\ op = "formatMistToSui"
  /\ input.rawAmount = "1234567000000005"
  /\ output.returned = "1,234,567.000000005 SUI"


\* C27: concurrent GET invocations share no mutable state: under every
\* interleaving the response of each invocation is the one its handler
\* computes from its own id and its own fetched record, whatever the other
\* invocations are doing, and the module-level cache is never written (the
\* lookup tables are constants of the module).
C27_InvocationsShareNoMutableState ==
  /\ ensCache = {}
  /\ \A i \in Invocations :
       calls[i].pc = "done" =>
         calls[i].response =
           IF calls[i].handler = "SuiGET"
           THEN SuiGETResponse(calls[i].rawTxHash, calls[i].fetch)
           ELSE EvmGETResponse(calls[i].rawTxHash, calls[i].fetch)

\* the second invocation has answered 200 for its own record while the
\* first one, started with another id, still waits for the ledger
C27_Witness ==
  /\ calls[1].pc = "awaiting"
  /\ calls[2].pc = "done"
  /\ calls[1].handler = "EvmGET"
  /\ calls[2].handler = "SuiGET"
  /\ calls[2].response.status = 200
  /\ calls[2].response.txDigest = SUI_DIGEST


\* C30: in the explain flow of the page, under every interleaving of calls
\* and responses, error and result are never both set, loading is true
\* while a request is in flight and false when none is, and a result that
\* is shown belongs to the most recently started request.
C30_OneRequestAtATimeLatestResultShown ==
  /\ ~(error # NULL /\ result # NoResult)
  /\ loading <=> inFlight # {}
  /\ result # NoResult => result.request = started

\* the result of the second request is shown, the first one having been
\* started by the mount effect, and nothing is in flight
C30_Witness ==
  /\ mounted
  /\ started = 2
  /\ ~loading
  /\ inFlight = {}
  /\ error = NULL
  /\ result # NoResult
  /\ result.request = 2
  /\ result.txDigest = HEX_DIGEST


\* a decimal integer with an optional minus sign, as the fee resolver
\* writes its total
IsSignedDecimal(s) ==
  IsDecimalLiteral(s) \/ (Len(s) > 1 /\ Head(s) = "-" /\ IsDecimalLiteral(Tail(s)))

\* total / 10^9 written out, with the sign of the total
SignedScaledDecimal(total) ==
  IF Head(total) = "-"
  THEN (IF StripLeadingZeros(Tail(total)) = "0" THEN "0"
        ELSE "-" \o ScaledDecimal(Tail(total), 9))
  ELSE ScaledDecimal(total, 9)

\* the total the gas section displays, without separators and unit
TotalDisplayed == WithoutCommas(SubSeq(output.totalSui, 1, Len(output.totalSui) - 4))

\* C28: for every total the resource-accounting fee resolver can output, a
\* negative total (the rebate exceeds the costs) included, the gas
\* breakdown displays a decimal amount whose value is total / 10^9, with
\* the same sign and magnitude.
C28_TotalDisplayedWithSignAndMagnitude ==
  op = "GasBreakdown" /\ IsSignedDecimal(input.gasUsed.total)
    => /\ SliceLast(output.totalSui, 4) = " SUI"
       /\ TotalDisplayed = SignedScaledDecimal(input.gasUsed.total)

\* the part of C28 that holds: a total that is not negative is displayed
\* as total / 10^9
C28_NonNegativeTotalDisplayed ==
  op = "GasBreakdown" /\ IsDecimalLiteral(input.gasUsed.total)
    => /\ SliceLast(output.totalSui, 4) = " SUI"
       /\ TotalDisplayed = SignedScaledDecimal(input.gasUsed.total)

\* costs of 10 and 30 with a rebate of 50: the total -10 is displayed
\* with its sign inside the fraction
C28_NegativeTotalWitness ==
  /\ op = "GasBreakdown"
  /\ input.gasUsed.computationCost = "10"
  /\ input.gasUsed.storageCost = "30"
  /\ input.gasUsed.storageRebate = "50"
  /\ input.gasUsed.total = "-10"
  /\ output.totalSui = "0.000000-1 SUI"


\* the index of the first action with the triple of a flow row
ActionOfFlow(actions, flow) ==
  CHOOSE i \in 1..Len(actions) :
    /\ TripleOf(actions[i]) = TripleOf(flow)
    /\ \A j \in 1..(i - 1) : TripleOf(actions[j]) # TripleOf(flow)

\* the label of the row reads, up to separators, as the amount and symbol
\* of the sentence the server wrote for the action of the row
LabelAgreesWithSentence(data, flow) ==
  Includes(data.actionExplanations[ActionOfFlow(data.actions, flow)],
           " transferred " \o WithoutCommas(flow.label) \o " to ")

\* C29: for every coin-transfer action the amount and symbol shown in the
\* transaction-flow label (client formatCoinAmount) denote the same value
\* and asset as the amount and symbol in the explanation sentence of the
\* server: same decimals, same symbol, up to thousands separators.
C29_FlowLabelAgreesWithSentence ==
  FlowBuilt =>
    \A k \in 1..Len(output.flows) :
      output.flows[k].type = "COIN_TRANSFER"
        => LabelAgreesWithSentence(input.data, output.flows[k])

\* the part of C29 that holds: label and sentence agree for a transfer of
\* the native coin
C29_NativeCoinLabelAgreesWithSentence ==
  FlowBuilt =>
    \A k \in 1..Len(output.flows) :
      /\ output.flows[k].type = "COIN_TRANSFER"
      /\ input.data.actions[ActionOfFlow(input.data.actions, output.flows[k])].coinType
           = SUI_COIN
      => LabelAgreesWithSentence(input.data, output.flows[k])

\* a transfer of an unlisted coin: "TOKEN" in the label, "coins" in the
\* sentence
C29_UnlistedCoinWitness ==
  /\ FlowBuilt
  /\ Len(output.flows) > 0
  /\ output.flows[1].type = "COIN_TRANSFER"
  /\ SliceLast(output.flows[1].label, 6) = " TOKEN"
  /\ Includes(input.data.actionExplanations[1], " coins to ")
====
